---------------------------- MODULE Spec2Model ----------------------------
(***************************************************************************)
(* Markdown -> Notion block conversion engine.                              *)
(*                                                                         *)
(*   link_handler.py        preprocess_markdown_links, postprocess_notion_  *)
(*                          blocks, fix_markdown_links                      *)
(*   markdown_converter.py  MarkdownConverter._convert_with_bs4 (with its   *)
(*                          inner process_rich_text_element), convert,      *)
(*                          clean_markdown_to_notion_blocks,                *)
(*                          markdown_to_notion_blocks                       *)
(*                                                                         *)
(* Text is a sequence of one-character strings, so that the two regular     *)
(* expressions of the preprocessing, its character offsets and the          *)
(* substring tests of the postprocessing are computed as the code computes  *)
(* them.                                                                    *)
(***************************************************************************)
EXTENDS Integers, Sequences, FiniteSets, TLC

VARIABLES
    input,      \* markdown_content handed to the pipeline (characters)
    pygments,   \* whether the Pygments highlighter is importable (codehilite)
    pc,         \* position inside fix_markdown_links / _convert_with_bs4
    masked,     \* processed_content returned by preprocess_markdown_links
    links,      \* extracted_links: records placeholder / text / url
    dom,        \* soup.children: the parsed top-level nodes
    next,       \* index of the next top-level node _convert_with_bs4 visits
    blocks,     \* the block list under construction / returned
    bridge,     \* outcome of the external Node.js bridge for this call
    result,     \* value returned by the facade (markdown_to_notion_blocks)
    calls,      \* the conversion calls in progress, one record per caller
    files,      \* the scratch files that exist in the temporary directory
    clip        \* the explainclip program: a mobject, a theme, a project tree

vars == <<input, pygments, pc, masked, links, dom, next, blocks, bridge, result,
          calls, files, clip>>

-----------------------------------------------------------------------------
(* Bounds *)

MaxSegs == 2        \* segments (blank-line separated chunks) per input text
MaxNodes == 3       \* top-level nodes of a drawn document tree

-----------------------------------------------------------------------------
(* Characters and strings *)

Cat(ss) ==
    LET RECURSIVE go(_)
        go(i) == IF i > Len(ss) THEN <<>> ELSE ss[i] \o go(i + 1)
    IN  go(1)

IsPrefixAt(s, i, p) ==
    /\ i >= 1
    /\ i + Len(p) - 1 <= Len(s)
    /\ SubSeq(s, i, i + Len(p) - 1) = p

\* Python's `p in s`
Contains(s, p) == \E i \in 1..(Len(s) - Len(p) + 1) : IsPrefixAt(s, i, p)

\* the least element of a non-empty set of integers
Min(S) == CHOOSE k \in S : \A m \in S : k <= m

\* the greatest element of a non-empty set of integers
Max(S) == CHOOSE k \in S : \A m \in S : k >= m

\* the least element of a set of positions, 0 if there is none
MinOrZero(S) == IF S = {} THEN 0 ELSE Min(S)

\* index of the first c at or after position from, 0 if there is none
FirstIndexOf(s, c, from) == MinOrZero({k \in from..Len(s) : s[k] = c})

Whitespace == {" ", "\n", "\t"}

\* the text between the first and the last of the positions kept
Between(s, keep) == IF keep = {} THEN <<>> ELSE SubSeq(s, Min(keep), Max(keep))

\* str.strip()
Strip(s) == Between(s, {k \in 1..Len(s) : s[k] \notin Whitespace})

\* the pieces of s between the separator positions seps
PiecesBetween(s, seps) ==
    LET \* position of the n-th separator; 0 before the first, Len(s) + 1 after the last
        At(n) == IF n = 0 THEN 0
                 ELSE IF n > Cardinality(seps) THEN Len(s) + 1
                 ELSE CHOOSE k \in seps : Cardinality({q \in seps : q <= k}) = n
    IN  [n \in 1..(Cardinality(seps) + 1) |-> SubSeq(s, At(n - 1) + 1, At(n) - 1)]

\* str.split(c) for a one-character separator c
SplitOn(s, c) == PiecesBetween(s, {k \in 1..Len(s) : s[k] = c})

\* str.split('\n')
SplitLines(s) == SplitOn(s, "\n")

\* '\n'.join(lines)
JoinLines(ls) ==
    LET RECURSIVE go(_)
        go(i) == IF i > Len(ls) THEN <<>>
                 ELSE IF i = Len(ls) THEN ls[i]
                 ELSE ls[i] \o <<"\n">> \o go(i + 1)
    IN  go(1)

Digits == <<"0", "1", "2", "3", "4", "5", "6", "7", "8", "9">>

\* str(n) of an f-string, n >= 0
ToDecimal(n) ==
    LET RECURSIVE go(_)
        go(k) == IF k < 10 THEN <<Digits[k + 1]>>
                 ELSE Append(go(k \div 10), Digits[(k % 10) + 1])
    IN  go(n)

-----------------------------------------------------------------------------
(* link_handler.py: preprocess_markdown_links *)

LinkWord == <<"L","I","N","K","P","L","A","C","E","H","O","L","D","E","R","_">>
UrlWord == <<"U","R","L">>

\* f"LINKPLACEHOLDER_{len(extracted_links)}"
LinkPlaceholder(n) == LinkWord \o ToDecimal(n)

\* a faulty token that does not count the recorded links; C24 must fail on it
UrlPlaceholder_Fixed(n) == UrlWord \o LinkWord \o ToDecimal(0)

\* f"URLLINKPLACEHOLDER_{len(extracted_links)}"
UrlPlaceholder(n) == UrlWord \o LinkWord \o ToDecimal(n)

\* a faulty matcher that takes any bracketed text for a link, with or without
\* the "(url)" behind it; C9 must fail on it
MdLinkAt_AnyBracket(s, i, j, k) ==
    IF i <= Len(s) /\ s[i] = "[" /\ j > i + 1
    THEN [ok |-> TRUE, start |-> i, close |-> j, stop |-> IF k > j + 2 THEN k ELSE j]
    ELSE [ok |-> FALSE, start |-> i, close |-> 0, stop |-> 0]

\* the match of  \[([^\]]+)\]\(([^)]+)\)  at position i of s, given the first "]"
\* after i (at j) and the first ")" after the "(" that follows it (at k)
MdLinkAt(s, i, j, k) ==
    IF /\ i <= Len(s) /\ s[i] = "["
       /\ j > i + 1
       /\ j + 1 <= Len(s) /\ s[j + 1] = "("
       /\ k > j + 2
    THEN [ok |-> TRUE, start |-> i, close |-> j, stop |-> k]
    ELSE [ok |-> FALSE, start |-> i, close |-> 0, stop |-> 0]

\* the text group [^\]]+ ends at the first "]" (at j); the url group [^)]+ ends
\* at the first ")" after the "("
MdLinkClose(s, i, j) ==
    MdLinkAt(s, i, j, IF j = 0 THEN 0 ELSE FirstIndexOf(s, ")", j + 2))

\* re  \[([^\]]+)\]\(([^)]+)\)  tried at position i: [ok, start, close, stop]
\* where s[start] = "[", s[close] = "]", s[close + 1] = "(", s[stop] = ")".
MdLinkMatch(s, i) == MdLinkClose(s, i, FirstIndexOf(s, "]", i + 1))

\* a faulty replacement that drops the text between the last match and this
\* one; C29 must fail on it
ReplaceOneLink_Drop(s, st, m) ==
    [from |-> m.stop + 1,
     out |-> st.out \o <<"[">> \o LinkPlaceholder(Len(st.ls)) \o <<"]">>,
     ls |-> Append(st.ls, [placeholder |-> LinkPlaceholder(Len(st.ls)),
                           text |-> SubSeq(s, m.start + 1, m.close - 1),
                           url |-> SubSeq(s, m.close + 2, m.stop - 1)])]

\* one replacement of re.sub: the text up to the match m is copied, the match
\* becomes a bracketed placeholder and the link is recorded
\* (replace_markdown_link); st = [from, out, ls]
ReplaceOneLink(s, st, m) ==
    [from |-> m.stop + 1,
     out |-> st.out \o SubSeq(s, st.from, m.start - 1)
              \o <<"[">> \o LinkPlaceholder(Len(st.ls)) \o <<"]">>,
     ls |-> Append(st.ls, [placeholder |-> LinkPlaceholder(Len(st.ls)),
                           text |-> SubSeq(s, m.start + 1, m.close - 1),
                           url |-> SubSeq(s, m.close + 2, m.stop - 1)])]

\* re.sub(r'\[([^\]]+)\]\(([^)]+)\)', replace_markdown_link, markdown_content)
\* (the scan goes from one leftmost match to the next, copying the text between)
\* extracted_links is ls0 when the substitution starts
ReplaceMarkdownLinksFrom(s, ls0) ==
    LET RECURSIVE go(_)
        RECURSIVE step(_, _)
        go(st) == step(st, MinOrZero({i \in st.from..Len(s) : MdLinkMatch(s, i).ok}))
        step(st, i) ==
            IF i = 0 THEN [text |-> st.out \o SubSeq(s, st.from, Len(s)), links |-> st.ls]
            ELSE go(ReplaceOneLink(s, st, MdLinkMatch(s, i)))
    IN  go([from |-> 1, out |-> <<>>, ls |-> ls0])

\* extracted_links = [] when preprocess_markdown_links starts
ReplaceMarkdownLinks(s) == ReplaceMarkdownLinksFrom(s, <<>>)

\* the characters  [^\s)"'\]\}]  may not be
UrlStop == Whitespace \cup {")", "\"", "'", "]", "}"}

\* the index before the first stop character, the end of the line without one
UrlLast(line, stops) == IF stops = {} THEN Len(line) ELSE Min(stops) - 1

\* the match of [^...]+ from position body on, stop being the excluded
\* characters: its last index, 0 if it is empty
UrlBody(line, body, stop) ==
    IF body = 0 THEN 0
    ELSE IF body <= Len(line) /\ line[body] \notin stop
         THEN UrlLast(line, {k \in body..Len(line) : line[k] \in stop})
         ELSE 0

HttpPrefix == <<"h","t","t","p",":","/","/">>
HttpsPrefix == <<"h","t","t","p","s",":","/","/">>

\* https?://  tried at position i: the position after it, 0 if it is not there
AfterScheme(line, i) ==
    IF IsPrefixAt(line, i, HttpsPrefix) THEN i + 8
    ELSE IF IsPrefixAt(line, i, HttpPrefix) THEN i + 7
    ELSE 0

\* re  https?://[^\s)"'\]\}]+  tried at position i of line: last index of the
\* match, 0 if it does not match there.
UrlMatchEnd(line, i) == UrlBody(line, AfterScheme(line, i), UrlStop)

\* Python's s[lo:hi] for 0 <= lo, 0 <= hi
Slice(s, lo, hi) ==
    IF lo + 1 > (IF hi < Len(s) THEN hi ELSE Len(s)) THEN <<>>
    ELSE SubSeq(s, lo + 1, IF hi < Len(s) THEN hi ELSE Len(s))

\* replace_bare_url's test: markdown_content[max(0, start - 2):start].endswith("](")
\* with start the 0-based offset of the match inside the line being scanned and
\* markdown_content the text the function was called with.
PrecededByLinkOpen(original, i) ==
    Slice(original, IF i - 3 > 0 THEN i - 3 ELSE 0, i - 1) = <<"]", "(">>

\* a faulty replace_bare_url that puts the new entry in front of the table;
\* C23 must fail on it
ReplaceOneUrl_Prepend(original, line, st, i, e) ==
    IF PrecededByLinkOpen(original, i)
    THEN [from |-> e + 1, out |-> st.out \o SubSeq(line, st.from, e), ls |-> st.ls]
    ELSE [from |-> e + 1,
          out |-> st.out \o SubSeq(line, st.from, i - 1) \o UrlPlaceholder(Len(st.ls)),
          ls |-> <<[placeholder |-> UrlPlaceholder(Len(st.ls)),
                    text |-> SubSeq(line, i, e),
                    url |-> SubSeq(line, i, e)]>> \o st.ls]

\* replace_bare_url on the match line[i..e]; st = [from, out, ls]
ReplaceOneUrl(original, line, st, i, e) ==
    IF PrecededByLinkOpen(original, i)
    THEN [from |-> e + 1, out |-> st.out \o SubSeq(line, st.from, e), ls |-> st.ls]
    ELSE [from |-> e + 1,
          out |-> st.out \o SubSeq(line, st.from, i - 1) \o UrlPlaceholder(Len(st.ls)),
          ls |-> Append(st.ls, [placeholder |-> UrlPlaceholder(Len(st.ls)),
                                text |-> SubSeq(line, i, e),
                                url |-> SubSeq(line, i, e)])]

\* re.sub(r'https?://[^\s)"\'\]\}]+', replace_bare_url, line)
ReplaceBareUrls(original, line, ls0) ==
    LET RECURSIVE go(_)
        RECURSIVE step(_, _)
        go(st) == step(st, MinOrZero({i \in st.from..Len(line) : UrlMatchEnd(line, i) # 0}))
        step(st, i) ==
            IF i = 0
            THEN [text |-> st.out \o SubSeq(line, st.from, Len(line)), links |-> st.ls]
            ELSE go(ReplaceOneUrl(original, line, st, i, UrlMatchEnd(line, i)))
    IN  go([from |-> 1, out |-> <<>>, ls |-> ls0])

\* the backtick character (written BQ in the model)
BQ == "BQ"

\* the fence marker: three backticks
Fence == <<BQ, BQ, BQ>>

\* line.strip().startswith(Fence)
IsFenceLine(line) == IsPrefixAt(Strip(line), 1, Fence)

\* the loop over the lines of the text left by the first pass: a fence line
\* toggles in_code_block, a line inside a fence is kept, any other line has its
\* bare URLs replaced
MaskLines(markdown_content, lines, ls0) ==
    LET RECURSIVE go(_, _, _, _)
        RECURSIVE masked_line(_, _, _, _)
        go(i, in_code_block, out, ls) ==
            IF i > Len(lines) THEN [text |-> JoinLines(out), links |-> ls]
            ELSE IF IsFenceLine(lines[i])
                 THEN go(i + 1, ~in_code_block, Append(out, lines[i]), ls)
            ELSE IF in_code_block
                 THEN go(i + 1, in_code_block, Append(out, lines[i]), ls)
            ELSE masked_line(i, in_code_block, out,
                             ReplaceBareUrls(markdown_content, lines[i], ls))
        masked_line(i, in_code_block, out, r) ==
            go(i + 1, in_code_block, Append(out, r.text), r.links)
    IN  go(1, FALSE, <<>>, ls0)

\* the first pass over the whole text, then the per-line pass
MaskAfterFirst(markdown_content, first) ==
    MaskLines(markdown_content, SplitLines(first.text), first.links)

preprocess_markdown_links(markdown_content) ==
    MaskAfterFirst(markdown_content, ReplaceMarkdownLinks(markdown_content))

-----------------------------------------------------------------------------
(* The parsed document: BeautifulSoup nodes *)

\* a NavigableString
TextNode(s) == [name |-> "#text", text |-> s, hasAttr |-> FALSE, attr |-> <<>>,
                kids |-> <<>>]

\* a Tag without attributes
Elem(name, kids) == [name |-> name, text |-> <<>>, hasAttr |-> FALSE, attr |-> <<>>,
                     kids |-> kids]

\* a Tag with the one attribute the converter reads from it (href of a, src of
\* img, the class of code)
ElemAttr(name, attr, kids) == [name |-> name, text |-> <<>>, hasAttr |-> TRUE,
                               attr |-> attr, kids |-> kids]

IsString(node) == node.name = "#text"

\* Tag.get_text(): the concatenation of all strings below the node
RECURSIVE get_text(_)
get_text(node) ==
    IF IsString(node) THEN node.text
    ELSE Cat([i \in 1..Len(node.kids) |-> get_text(node.kids[i])])

\* the descendants of node in document order (node itself excluded)
RECURSIVE Descendants(_)
Descendants(node) ==
    Cat([i \in 1..Len(node.kids) |-> <<node.kids[i]>> \o Descendants(node.kids[i])])

\* Tag.find_all(names): descendants whose tag name is in names, document order
find_all(node, names) == SelectSeq(Descendants(node), LAMBDA d : d.name \in names)

\* Tag.find_all(names, recursive=False)
find_children(node, names) == SelectSeq(node.kids, LAMBDA d : d.name \in names)

-----------------------------------------------------------------------------
(* markdown_converter.py: process_rich_text_element (the Inline Formatter) *)

NoAnnotations == {}

\* {"type": "text", "text": {"content": c}}
PlainRun(c) == [content |-> c, hasLink |-> FALSE, url |-> <<>>,
                annotations |-> NoAnnotations]

\* {"type": "text", "text": {"content": c, "link": {"url": u}}}
LinkRun(c, u) == [content |-> c, hasLink |-> TRUE, url |-> u,
                  annotations |-> NoAnnotations]

\* the annotation a decorated child's tag name selects
TagAnnotations(name) ==
    IF name \in {"strong", "b"} THEN {"bold"}
    ELSE IF name \in {"em", "i"} THEN {"italic"}
    ELSE IF name = "u" THEN {"underline"}
    ELSE IF name = "code" THEN {"code"}
    ELSE IF name \in {"del", "s"} THEN {"strikethrough"}
    ELSE NoAnnotations

\* the run of a decorated child; found = child.find_all('a'), whose first
\* element gives the link when it has an href
DecoratedRun(child, found) ==
    <<[content |-> get_text(child),
       hasLink |-> (found # <<>> /\ found[1].hasAttr),
       url |-> IF found # <<>> /\ found[1].hasAttr THEN found[1].attr ELSE <<>>,
       annotations |-> TagAnnotations(child.name)]>>

\* a faulty loop body that keeps a decorated child without text; C6 must fail
\* on it
ChildRuns_KeepEmpty(child) ==
    IF IsString(child)
    THEN IF Strip(child.text) # <<>> THEN <<PlainRun(child.text)>> ELSE <<>>
    ELSE IF child.name = "a" /\ child.hasAttr
    THEN IF get_text(child) # <<>> THEN <<LinkRun(get_text(child), child.attr)>>
         ELSE <<>>
    ELSE DecoratedRun(child, find_all(child, {"a"}))

\* the runs one child of the element contributes (the body of the for loop)
ChildRuns(child) ==
    IF IsString(child)
    THEN IF Strip(child.text) # <<>> THEN <<PlainRun(child.text)>> ELSE <<>>
    ELSE IF child.name = "a" /\ child.hasAttr
    THEN IF get_text(child) # <<>> THEN <<LinkRun(get_text(child), child.attr)>>
         ELSE <<>>
    ELSE IF get_text(child) = <<>> THEN <<>>
    ELSE DecoratedRun(child, find_all(child, {"a"}))

\* a faulty formatter that walks the children from the last to the first; C27
\* must fail on it
process_rich_text_element_Backwards(element) ==
    IF IsString(element) THEN <<PlainRun(element.text)>>
    ELSE IF element.name = "a" /\ element.hasAttr
    THEN IF get_text(element) # <<>>
         THEN <<LinkRun(get_text(element), element.attr)>>
         ELSE <<>>
    ELSE Cat([i \in 1..Len(element.kids) |->
                 ChildRuns(element.kids[Len(element.kids) + 1 - i])])

process_rich_text_element(element) ==
    IF IsString(element) THEN <<PlainRun(element.text)>>
    ELSE IF element.name = "a" /\ element.hasAttr
    THEN IF get_text(element) # <<>>
         THEN <<LinkRun(get_text(element), element.attr)>>
         ELSE <<>>
    ELSE Cat([i \in 1..Len(element.kids) |-> ChildRuns(element.kids[i])])

-----------------------------------------------------------------------------
(* markdown_converter.py: _convert_with_bs4, the loop over soup.children *)

Block(type, rich_text) ==
    [type |-> type, rich_text |-> rich_text, language |-> <<>>, url |-> <<>>,
     table_width |-> 0, has_column_header |-> FALSE, children |-> <<>>]

PlainText == <<"p","l","a","i","n"," ","t","e","x","t">>
LanguagePrefix == <<"l","a","n","g","u","a","g","e","-">>

HeadingType(name) ==
    IF name = "h1" THEN "heading_1" ELSE IF name = "h2" THEN "heading_2" ELSE "heading_3"

\* the language of a pre: the class of its first code element after "language-"
CodeLanguage(codes) ==
    IF codes # <<>> /\ codes[1].hasAttr /\ IsPrefixAt(codes[1].attr, 1, LanguagePrefix)
    THEN SubSeq(codes[1].attr, 10, Len(codes[1].attr))
    ELSE PlainText

\* elif element.name == 'pre'
CodeBlock(element) ==
    [Block("code", <<PlainRun(get_text(element))>>) EXCEPT
        !.language = CodeLanguage(find_all(element, {"code"}))]

\* while len(row_cells) < table_width: append a cell holding one empty run
PadRow(row_cells, table_width) ==
    row_cells \o [i \in 1..(table_width - Len(row_cells)) |-> <<PlainRun(<<>>)>>]

\* a faulty trim that leaves a long row as it is; C5 must fail on it
TrimRow_Never(row_cells, table_width) == row_cells

\* if len(row_cells) > table_width: row_cells = row_cells[:table_width]
TrimRow(row_cells, table_width) ==
    IF Len(row_cells) > table_width THEN SubSeq(row_cells, 1, table_width) ELSE row_cells

\* "Make sure we have exactly table_width cells": pad, then trim
NormalizeRow(row_cells, table_width) ==
    TrimRow(PadRow(row_cells, table_width), table_width)

\* the runs of each of the cells found in a row
CellRuns(cells) == [i \in 1..Len(cells) |-> process_rich_text_element(cells[i])]

\* the cells of one tr, each cell a list of runs
RowCells(row) == CellRuns(find_all(row, {"th", "td"}))

\* the table block of the rows found, table_width taken from the first row
TableOfRows(rows, table_width) ==
    IF table_width = 0 THEN <<>>
    ELSE <<[Block("table", <<>>) EXCEPT
              !.table_width = table_width,
              !.has_column_header = (find_all(rows[1], {"th"}) # <<>>),
              !.children = [i \in 1..Len(rows) |->
                               NormalizeRow(RowCells(rows[i]), table_width)]]>>

\* the width of a table: the number of th/td cells of its first row
TableWidth(rows) == IF rows = <<>> THEN 0 ELSE Len(find_all(rows[1], {"th", "td"}))

\* the table of the rows found (none without rows)
TableOf(rows) == TableOfRows(rows, TableWidth(rows))

\* elif element.name == 'table' (the try branch)
TableBlocks(element) == TableOf(find_all(element, {"tr"}))

\* a child on which process_rich_text_element raises while a cell is processed:
\* it stands for whatever makes the try branch fail, and carries str(e)
Fault(message) == ElemAttr("#raise", message, <<>>)

\* the exceptions the cells of the rows raise, in the order the rows and cells
\* are processed; a table without rows or cells is skipped before any cell
RaisedInRow(cells) ==
    Cat([i \in 1..Len(cells) |-> find_children(cells[i], {"#raise"})])

RaisedIn(rows) ==
    IF TableWidth(rows) = 0 THEN <<>>
    ELSE Cat([i \in 1..Len(rows) |-> RaisedInRow(find_all(rows[i], {"th", "td"}))])

\* "[Table could not be processed: "
TableErrorPrefix ==
    <<"[","T","a","b","l","e"," ","c","o","u","l","d"," ","n","o","t"," ","b","e"," ",
      "p","r","o","c","e","s","s","e","d",":"," ">>

\* a faulty except branch that appends nothing; C14 must fail on it
TableFailure_Silent(element, e) == <<>>

\* except Exception as e: a paragraph naming the error, then the text of the
\* table as a paragraph  if text_content
TableFailure(element, e) ==
    <<Block("paragraph", <<PlainRun(TableErrorPrefix \o e \o <<"]">>)>>)>>
    \o (IF Strip(get_text(element)) # <<>>
        THEN <<Block("paragraph", <<PlainRun(Strip(get_text(element)))>>)>>
        ELSE <<>>)

\* the try and its except: the first exception raised ends the try branch
TableOrFailure(element, raised) ==
    IF raised = <<>> THEN TableBlocks(element)
    ELSE TableFailure(element, raised[1].attr)

\* elif element.name == 'table'
TableBranch(element) == TableOrFailure(element, RaisedIn(find_all(element, {"tr"})))

\* elif element.name == 'img' and element.has_attr('src')
ImageBlocks(element) ==
    IF IsPrefixAt(element.attr, 1, HttpPrefix) \/ IsPrefixAt(element.attr, 1, HttpsPrefix)
    THEN <<[Block("image", <<>>) EXCEPT !.url = element.attr]>>
    ELSE <<>>

\* elif element.name == 'div' or element.name == 'span'
\* one block of the given type per element of a list of elements
BlockPerElement(elements, type) ==
    [i \in 1..Len(elements) |-> Block(type, process_rich_text_element(elements[i]))]

\* if div_blocks: extend, else: one paragraph of the container itself
DivBlocksOr(element, div_blocks) ==
    IF div_blocks # <<>> THEN div_blocks
    ELSE <<Block("paragraph", process_rich_text_element(element))>>

\* elif element.name == 'div' or element.name == 'span'
ContainerBlocks(element) ==
    DivBlocksOr(element, BlockPerElement(find_children(element, {"p"}), "paragraph"))

\* a faulty list branch that puts the runs of all items into one block; C7 must
\* fail on it
ListBlocks_Merged(element, type) ==
    <<Block(type, Cat(CellRuns(find_children(element, {"li"}))))>>

\* elif element.name == 'ul' / 'ol': one block per li child
ListBlocks(element, type) == BlockPerElement(find_children(element, {"li"}), type)

\* the blocks one top-level node appends (one iteration of the loop)
ClassifyElement(element) ==
    IF IsString(element) THEN <<>>
    ELSE IF element.name \in {"h1", "h2", "h3"}
        THEN <<Block(HeadingType(element.name), process_rich_text_element(element))>>
    ELSE IF element.name = "p"
        THEN IF Strip(get_text(element)) = <<>> THEN <<>>
             ELSE <<Block("paragraph", process_rich_text_element(element))>>
    ELSE IF element.name = "ul" THEN ListBlocks(element, "bulleted_list_item")
    ELSE IF element.name = "ol" THEN ListBlocks(element, "numbered_list_item")
    ELSE IF element.name = "blockquote"
        THEN <<Block("quote", process_rich_text_element(element))>>
    ELSE IF element.name = "pre" THEN <<CodeBlock(element)>>
    ELSE IF element.name = "hr" THEN <<Block("divider", <<>>)>>
    ELSE IF element.name = "table" THEN TableBranch(element)
    ELSE IF element.name = "img" /\ element.hasAttr THEN ImageBlocks(element)
    ELSE IF element.name \in {"div", "span"} THEN ContainerBlocks(element)
    ELSE IF Strip(get_text(element)) # <<>>
        THEN <<Block("paragraph", <<PlainRun(Strip(get_text(element)))>>)>>
    ELSE <<>>

\* the whole loop: blocks of all top-level nodes, in order
ClassifyAll(nodes) == Cat([i \in 1..Len(nodes) |-> ClassifyElement(nodes[i])])

-----------------------------------------------------------------------------
(* markdown_converter.py: markdown.markdown(...) followed by BeautifulSoup(html) *)
(* for the Markdown the inputs are drawn from: blank-line separated chunks   *)
(* that are a fenced code block, a heading line, a tight bullet list, a pipe *)
(* table or a paragraph, with inline links [text](url) and no other inline   *)
(* markup.  Bare URLs are not linkified by the library.                      *)

\* index of the bracket closing the one opened just before position from
\* (nesting counted), 0 if it is never closed
MatchingClose(s, from, open, close) ==
    LET Depth(j) == 1 + Cardinality({k \in from..j : s[k] = open})
                      - Cardinality({k \in from..j : s[k] = close})
    IN  MinOrZero({j \in from..Len(s) : s[j] = close /\ Depth(j) = 0})

\* the inline link whose text is closed at j: its url is closed at stop
InlineLinkClosedAt(s, i, j) ==
    [start |-> i, close |-> j,
     stop |-> IF j # 0 /\ j + 1 <= Len(s) /\ s[j + 1] = "("
              THEN MatchingClose(s, j + 2, "(", ")") ELSE 0]

\* the inline link [text](url) starting at position i; stop = 0 without one
InlineLinkAt(s, i) ==
    InlineLinkClosedAt(s, i, IF i <= Len(s) /\ s[i] = "["
                             THEN MatchingClose(s, i + 1, "[", "]") ELSE 0)

\* the string s[from..to] as a node list: nothing when it is empty
TextNodes(s, from, to) == IF from > to THEN <<>> ELSE <<TextNode(SubSeq(s, from, to))>>

\* the children of the element holding inline text s: strings, a elements and,
\* for a newline (nl2br), a br followed by a string that starts with the newline
RECURSIVE InlineNodes(_)
InlineNodes(s) ==
    LET RECURSIVE go(_, _)
        RECURSIVE at(_, _)
        RECURSIVE link(_, _)
        \* the pending string starts at from; links and newlines are looked for at scan on
        go(from, scan) ==
            at(from, MinOrZero({i \in scan..Len(s) :
                                   InlineLinkAt(s, i).stop # 0 \/ s[i] = "\n"}))
        \* the first link or newline is at i (0: there is none)
        at(from, i) ==
            IF i = 0 THEN TextNodes(s, from, Len(s))
            ELSE IF s[i] = "\n"
                 THEN TextNodes(s, from, i - 1) \o <<Elem("br", <<>>)>> \o go(i, i + 1)
            ELSE link(from, InlineLinkAt(s, i))
        link(from, m) ==
            TextNodes(s, from, m.start - 1)
            \o <<ElemAttr("a", SubSeq(s, m.close + 2, m.stop - 1),
                          InlineNodes(SubSeq(s, m.start + 1, m.close - 1)))>>
            \o go(m.stop + 1, m.stop + 1)
    IN  go(1, 1)

\* the opening line of a fenced block: the fence at column 1, then a language
IsFenceOpen(line) ==
    /\ IsPrefixAt(line, 1, Fence)
    /\ \A k \in 4..Len(line) : line[k] \notin {BQ, " "}

\* the closing line of a fenced block
IsFenceClose(line) == Strip(line) = Fence /\ IsPrefixAt(line, 1, Fence)

\* the code element of a fenced block: the class names the language unless
\* Pygments renders the block, an empty body leaves no string
FencedCode(lang, text, pyg) ==
    IF lang = <<>> \/ pyg
    THEN Elem("code", IF text = <<>> THEN <<>> ELSE <<TextNode(text)>>)
    ELSE ElemAttr("code", LanguagePrefix \o lang,
                  IF text = <<>> THEN <<>> ELSE <<TextNode(text)>>)

\* the node of a fenced block (fenced_code with codehilite): a pre holding a
\* code element, wrapped in a div when Pygments renders it
FencedNode(open, body, pyg) ==
    IF pyg
    THEN Elem("div", <<Elem("pre",
             <<FencedCode(SubSeq(open, 4, Len(open)),
                          Cat([i \in 1..Len(body) |-> body[i] \o <<"\n">>]), pyg)>>)>>)
    ELSE Elem("pre",
             <<FencedCode(SubSeq(open, 4, Len(open)),
                          Cat([i \in 1..Len(body) |-> body[i] \o <<"\n">>]), pyg)>>)

\* a line without its leading pipe
DropLeadingPipe(t) == IF t # <<>> /\ t[1] = "|" THEN SubSeq(t, 2, Len(t)) ELSE t

\* a line without its trailing pipe
DropTrailingPipe(t) == IF t # <<>> /\ t[Len(t)] = "|" THEN SubSeq(t, 1, Len(t) - 1) ELSE t

\* each piece stripped
StripAll(pieces) == [k \in 1..Len(pieces) |-> Strip(pieces[k])]

\* the cells of a table line: border pipes dropped, split on "|", stripped
SplitRow(line) == StripAll(SplitOn(DropTrailingPipe(DropLeadingPipe(Strip(line))), "|"))

IsSeparatorCell(c) == c # <<>> /\ \A k \in 1..Len(c) : c[k] \in {"-", ":"}

\* a separator row of the width of the header row
IsSeparatorRow(sep, head) ==
    /\ Len(sep) = Len(head)
    /\ \A k \in 1..Len(sep) : IsSeparatorCell(sep[k])

\* the tables extension's test of a chunk
IsTableChunk(chunk) ==
    /\ Len(chunk) >= 2
    /\ Contains(chunk[1], <<"|">>)
    /\ IsSeparatorRow(SplitRow(chunk[2]), SplitRow(chunk[1]))

\* a body row of a table: its cells padded / cut to the header width
TableBodyRow(cs, width) ==
    Elem("tr", [k \in 1..width |->
                   Elem("td", InlineNodes(IF k <= Len(cs) THEN cs[k] ELSE <<>>))])

\* the table of the header cells head and the body lines of the chunk
TableOfHead(chunk, head) ==
    Elem("table",
         <<Elem("thead",
                <<Elem("tr", [k \in 1..Len(head) |-> Elem("th", InlineNodes(head[k]))])>>),
           Elem("tbody", [r \in 1..(Len(chunk) - 2) |->
                             TableBodyRow(SplitRow(chunk[r + 2]), Len(head))])>>)

\* a table chunk: header cells th, body rows padded / cut to the header width
TableNode(chunk) == TableOfHead(chunk, SplitRow(chunk[1]))

\* the number of leading "#" of a line
HashCount(line) ==
    MinOrZero({k \in 1..(Len(line) + 1) : k > Len(line) \/ line[k] # "#"}) - 1

HeadingNames == <<"h1", "h2", "h3", "h4", "h5", "h6">>

\* the heading of a line that starts with level "#"
HeadingNode(line, level) ==
    Elem(HeadingNames[level], InlineNodes(Strip(SubSeq(line, level + 1, Len(line)))))

IsItemLine(line) == IsPrefixAt(line, 1, <<"*", " ">>) \/ IsPrefixAt(line, 1, <<"-", " ">>)

\* the items of a bullet chunk: a marker line starts an item, any other line
\* continues the item before it
ListItems(chunk) ==
    LET RECURSIVE go(_, _)
        go(i, items) ==
            IF i > Len(chunk) THEN items
            ELSE IF IsItemLine(chunk[i]) \/ items = <<>>
                 THEN go(i + 1, Append(items, Strip(SubSeq(chunk[i], 3, Len(chunk[i])))))
            ELSE go(i + 1, [items EXCEPT ![Len(items)] = @ \o <<"\n">> \o Strip(chunk[i])])
    IN  go(1, <<>>)

\* the li elements of the items of a bullet chunk
ItemNodes(items) == [k \in 1..Len(items) |-> Elem("li", InlineNodes(items[k]))]

\* wrap the inline content of a list item into a p (a loose item)
Loosen(li) ==
    IF li.kids # <<>> /\ ~(Len(li.kids) = 1 /\ li.kids[1].name = "p")
    THEN Elem("li", <<Elem("p", li.kids)>>) ELSE li

\* a list continued after a blank line becomes a loose list: the last item
\* before the blank line and the first after it get a p
ContinueList(prev, lis) ==
    SubSeq(prev, 1, Len(prev) - 1)
    \o <<Loosen(prev[Len(prev)]), Loosen(lis[1])>>
    \o SubSeq(lis, 2, Len(lis))

\* the nodes after the items of a bullet chunk are added
AddList(nodes, lis) ==
    IF nodes # <<>> /\ nodes[Len(nodes)].name = "ul"
    THEN [nodes EXCEPT ![Len(nodes)].kids = ContinueList(@, lis)]
    ELSE Append(nodes, Elem("ul", lis))

\* the nodes after one chunk of consecutive non-blank lines is added
RECURSIVE AddChunk(_, _)
AddChunk(nodes, chunk) ==
    IF chunk = <<>> THEN nodes
    ELSE IF IsTableChunk(chunk) THEN Append(nodes, TableNode(chunk))
    ELSE IF HashCount(chunk[1]) \in 1..6
    THEN AddChunk(Append(nodes, HeadingNode(chunk[1], HashCount(chunk[1]))),
                  SubSeq(chunk, 2, Len(chunk)))
    ELSE IF IsItemLine(chunk[1]) THEN AddList(nodes, ItemNodes(ListItems(chunk)))
    ELSE Append(nodes, Elem("p", InlineNodes(Strip(JoinLines(chunk)))))

\* the nodes of the lines of a text: a fenced block runs from its opening line
\* to the first closing line, a blank line ends a chunk
NodesOfLines(lines, pyg) ==
    LET RECURSIVE go(_, _, _)
        RECURSIVE fenced(_, _, _, _)
        go(i, chunk, nodes) ==
            IF i > Len(lines) THEN AddChunk(nodes, chunk)
            ELSE IF IsFenceOpen(lines[i])
            THEN fenced(i, MinOrZero({j \in (i + 1)..Len(lines) : IsFenceClose(lines[j])}),
                        chunk, nodes)
            ELSE IF Strip(lines[i]) = <<>> THEN go(i + 1, <<>>, AddChunk(nodes, chunk))
            ELSE go(i + 1, Append(chunk, lines[i]), nodes)
        \* the fence opened at line i is closed at line j (0: never, and the
        \* line is a line of text)
        fenced(i, j, chunk, nodes) ==
            IF j = 0 THEN go(i + 1, Append(chunk, lines[i]), nodes)
            ELSE go(j + 1, <<>>,
                    Append(AddChunk(nodes, chunk),
                           FencedNode(lines[i], SubSeq(lines, i + 1, j - 1), pyg)))
    IN  go(1, <<>>, <<>>)

\* soup.children for the text md_content
MarkdownToDom(md_content, pyg) == NodesOfLines(SplitLines(md_content), pyg)

\* MarkdownConverter._convert_with_bs4 on a string
convert_with_bs4(md_content, pyg) ==
    IF md_content = <<>> THEN <<>> ELSE ClassifyAll(MarkdownToDom(md_content, pyg))

-----------------------------------------------------------------------------
(* link_handler.py: postprocess_notion_blocks and fix_markdown_links *)

\* the last link recorded under the placeholder of link k
LastOf(extracted_links, k) ==
    Max({m \in k..Len(extracted_links) :
            extracted_links[m].placeholder = extracted_links[k].placeholder})

\* link_lookup = {link["placeholder"]: link for link in extracted_links}, as
\* the sequence of its items: a key keeps the position of its first
\* occurrence and the value of its last
LinkLookup(extracted_links) ==
    LET firsts(idx) == SelectSeq(idx,
                            LAMBDA k : \A m \in 1..(k - 1) :
                                extracted_links[m].placeholder
                                    # extracted_links[k].placeholder)
        items(fs) == [i \in 1..Len(fs) |-> extracted_links[LastOf(extracted_links, fs[i])]]
    IN  items(firsts([k \in 1..Len(extracted_links) |-> k]))

\* the first item of the lookup whose key (wrapped by pre and post) occurs in
\* content, 0 if none does
FirstMatch(content, lookup, pre, post) ==
    MinOrZero({k \in 1..Len(lookup) :
                  Contains(content, pre \o lookup[k].placeholder \o post)})

\* a faulty resolution that sets the link and leaves the placeholder as the
\* content; C2 must fail on it
ResolveTo_KeepContent(run, lookup, hit) ==
    IF hit = 0 THEN run
    ELSE [run EXCEPT !.hasLink = TRUE, !.url = lookup[hit].url]

\* a faulty resolution that builds the resolved run anew, without the
\* annotations of the run it replaces; C28 must fail on it
ResolveTo_Plain(run, lookup, hit) ==
    IF hit = 0 THEN run
    ELSE LinkRun(lookup[hit].text, lookup[hit].url)

\* the run resolved to item hit of the lookup (0: left as it is)
ResolveTo(run, lookup, hit) ==
    IF hit = 0 THEN run
    ELSE [run EXCEPT !.content = lookup[hit].text,
                     !.hasLink = TRUE,
                     !.url = lookup[hit].url]

\* the bare match wins over the bracketed one
FirstOf(bare, bracketed) == IF bare # 0 THEN bare ELSE bracketed

\* process_block on a text item: "Check all text content fields"
ResolveRun(run, lookup) ==
    ResolveTo(run, lookup,
              FirstOf(FirstMatch(run.content, lookup, <<>>, <<>>),
                      FirstMatch(run.content, lookup, <<"[">>, <<"]">>)))

ResolveRuns(runs, lookup) == [i \in 1..Len(runs) |-> ResolveRun(runs[i], lookup)]

\* process_block on a block: the cells of a table are visited by the table
\* branch and again by the recursion over the dict values
ProcessBlock(block, lookup) ==
    LET Twice(cell) == ResolveRuns(ResolveRuns(cell, lookup), lookup)
    IN  [block EXCEPT
            !.rich_text = ResolveRuns(@, lookup),
            !.children = IF block.type = "table"
                         THEN [r \in 1..Len(@) |-> [c \in 1..Len(@[r]) |-> Twice(@[r][c])]]
                         ELSE @]

\* every block processed with the lookup
ProcessBlocks(bs, lookup) == [i \in 1..Len(bs) |-> ProcessBlock(bs[i], lookup)]

postprocess_notion_blocks(bs, extracted_links) ==
    IF extracted_links = <<>> THEN bs
    ELSE ProcessBlocks(bs, LinkLookup(extracted_links))

\* the blocks of the masked text, with the links put back when any was recorded
ConvertMasked(pre, pyg) ==
    IF pre.links # <<>>
    THEN postprocess_notion_blocks(convert_with_bs4(pre.text, pyg), pre.links)
    ELSE convert_with_bs4(pre.text, pyg)

\* fix_markdown_links(markdown_content, converter_func) with the built-in
\* parser as converter_func
fix_markdown_links(markdown_content, pyg) ==
    ConvertMasked(preprocess_markdown_links(markdown_content), pyg)

-----------------------------------------------------------------------------
(* The Markdown texts the pipeline is run on: up to MaxSegs chunks, separated *)
(* by a blank line, each drawn from the chunks below                          *)

\* a paragraph without links
SegPlain ==
    <<"a"," ","b">>

\* brackets that are no link
SegBracket ==
    <<"[","n","]"," ","a">>

\* a paragraph that is one Markdown link
SegMdLink ==
    <<"[","T","]","(","h","t","t","p",":","/","/","x",")">>

\* another Markdown link
SegMdLink2 ==
    <<"[","a"," ","b","]","(","h","t","t","p","s",":","/","/","y","/","z",")">>

\* a paragraph that is one bare URL
SegBareUrl ==
    <<"h","t","t","p",":","/","/","y">>

\* another bare URL
SegBareUrl2 ==
    <<"h","t","t","p","s",":","/","/","y","/","z">>

\* plain text, a Markdown link and a bare URL in one paragraph
SegMixed ==
    <<"V","i","s","i","t"," ","[","D","o","c","s","]","(","h","t","t","p","s",":","/",
      "/","d","o","c","s",".","e","x","a","m","p","l","e",".","c","o","m",")"," ","o",
      "r"," ","h","t","t","p","s",":","/","/","e","x","a","m","p","l","e",".","o","r",
      "g",".">>

\* a bullet list of two items
SegList ==
    <<"*"," ","[","a","]","(","h","t","t","p",":","/","/","x",")","\n","*"," ","h",
      "t","t","p",":","/","/","y">>

\* a heading
SegHeading ==
    <<"#"," ","T","i","t","l","e">>

\* a fenced code block holding a bare URL
SegFenceUrl ==
    <<BQ,BQ,BQ,"\n","h","t","t","p",":","/","/","y","\n",BQ,BQ,BQ>>

\* a fenced code block holding Markdown link syntax
SegFenceLink ==
    <<BQ,BQ,BQ,"\n","[","a","]","(","h","t","t","p",":","/","/","x",")","\n",BQ,BQ,BQ>>

\* a table with a link in a cell
SegTable ==
    <<"|"," ","A"," ","|"," ","B"," ","|","\n","|","-","-","-","|","-","-","-","|",
      "\n","|"," ","[","X","]","(","h","t","t","p",":","/","/","x",")"," ","|"," ",
      "y"," ","|">>

Catalogue ==
    {SegPlain, SegBracket, SegMdLink, SegMdLink2, SegBareUrl, SegBareUrl2, SegMixed,
     SegList, SegHeading, SegFenceUrl, SegFenceLink, SegTable}

BlankLine == <<"\n", "\n">>

JoinSegs(ss) ==
    LET RECURSIVE go(_)
        go(i) == IF i = Len(ss) THEN ss[i] ELSE ss[i] \o BlankLine \o go(i + 1)
    IN  go(1)

Inputs == {JoinSegs(ss) : ss \in UNION {[1..n -> Catalogue] : n \in 1..MaxSegs}}

-----------------------------------------------------------------------------
(* fix_markdown_links with the built-in parser, step by step *)

NoBridge == [script |-> FALSE, link_handler |-> TRUE, direct |-> "none",
             npx |-> "none", node |-> "none", out |-> <<>>]

Init ==
    /\ input \in Inputs
    /\ pygments \in BOOLEAN
    /\ pc = "start"
    /\ masked = <<>>
    /\ links = <<>>
    /\ dom = <<>>
    /\ next = 1
    /\ blocks = <<>>
    /\ bridge = NoBridge
    /\ result = <<>>
    /\ calls = <<>>
    /\ files = {}
    /\ clip = <<>>

\* processed_content, extracted_links = preprocess_markdown_links(markdown_content)
Preprocess ==
    /\ pc = "start"
    /\ LET pre == preprocess_markdown_links(input)
       IN  /\ masked' = pre.text
           /\ links' = pre.links
    /\ pc' = "masked"
    /\ UNCHANGED <<input, pygments, dom, next, blocks, bridge, result, calls, files, clip>>

\* converter_func(processed_content): markdown.markdown and BeautifulSoup
Parse ==
    /\ pc = "masked"
    /\ dom' = IF masked = <<>> THEN <<>> ELSE MarkdownToDom(masked, pygments)
    /\ next' = 1
    /\ blocks' = <<>>
    /\ pc' = "classify"
    /\ UNCHANGED <<input, pygments, masked, links, bridge, result, calls, files, clip>>

\* one iteration of  for element in soup.children
ClassifyStep ==
    /\ pc = "classify"
    /\ next <= Len(dom)
    /\ blocks' = blocks \o ClassifyElement(dom[next])
    /\ next' = next + 1
    /\ UNCHANGED <<input, pygments, pc, masked, links, dom, bridge, result, calls, files, clip>>

\* return blocks
FinishConvert ==
    /\ pc = "classify"
    /\ next > Len(dom)
    /\ pc' = "converted"
    /\ UNCHANGED <<input, pygments, masked, links, dom, next, blocks, bridge, result, calls, files, clip>>

\* if extracted_links: blocks = postprocess_notion_blocks(blocks, extracted_links)
Postprocess ==
    /\ pc = "converted"
    /\ blocks' = IF links # <<>> THEN postprocess_notion_blocks(blocks, links) ELSE blocks
    /\ pc' = "done"
    /\ UNCHANGED <<input, pygments, masked, links, dom, next, bridge, result, calls, files, clip>>

Next == Preprocess \/ Parse \/ ClassifyStep \/ FinishConvert \/ Postprocess

Spec == Init /\ [][Next]_vars

-----------------------------------------------------------------------------
(* _convert_with_bs4 on parsed documents: raw HTML in the Markdown reaches the *)
(* converter unchanged, so soup.children can hold any node.  The documents    *)
(* are up to MaxNodes top-level nodes drawn from the nodes below; the         *)
(* placeholder table is the one preprocessing records for a text with one     *)
(* Markdown link followed by one bare URL.                                    *)

Str(s) == TextNode(s)

NodeH1 == Elem("h1", <<Str(<<"T","i","t","l","e">>)>>)
NodeP == Elem("p", <<Str(<<"a">>)>>)
NodePBlank == Elem("p", <<Str(<<" ">>)>>)
NodeUl == Elem("ul", <<Elem("li", <<Str(<<"x">>)>>),
                       Elem("li", <<Str(UrlPlaceholder(1))>>)>>)
NodeOl == Elem("ol", <<Elem("li", <<Str(<<"x">>)>>), Elem("li", <<Str(<<"y">>)>>)>>)
NodeDiv == Elem("div", <<Elem("p", <<Str(<<" ">>)>>),
                         Elem("p", <<Str(<<"[">> \o LinkPlaceholder(0) \o <<"]">>)>>)>>)
NodeDivText == Elem("div", <<Str(<<"t">>)>>)
NodePre == Elem("pre", <<ElemAttr("code", LanguagePrefix \o <<"p", "y">>,
                                  <<Str(<<"c", "\n">>)>>)>>)
NodePreEmpty == Elem("pre", <<Elem("code", <<>>)>>)
\* a table whose body rows are shorter and longer than its header row
NodeTable ==
    Elem("table",
         <<Elem("tr", <<Elem("th", <<Str(<<"A">>)>>), Elem("th", <<Str(<<"B">>)>>)>>),
           Elem("tr", <<Elem("td", <<Str(<<"x">>)>>)>>),
           Elem("tr", <<Elem("td", <<Str(<<"1">>)>>), Elem("td", <<Str(<<"2">>)>>),
                        Elem("td", <<Str(<<"3">>)>>)>>)>>)
\* a table without header cells, a placeholder in a cell
NodeTableTd ==
    Elem("table",
         <<Elem("tr", <<Elem("td", <<Str(<<"[">> \o LinkPlaceholder(0) \o <<"]">>)>>),
                        Elem("td", <<>>)>>)>>)
\* a table whose first row has no cell
NodeTableEmpty == Elem("table", <<Elem("tr", <<>>), Elem("tr", <<Elem("td", <<Str(<<"z">>)>>)>>)>>)
\* inline decoration: a string, bold, a line break, a link, a link inside
\* italics, blanks
NodeRich ==
    Elem("p", <<Str(<<"a", " ">>),
                Elem("strong", <<Str(<<"b">>)>>),
                Elem("br", <<>>),
                ElemAttr("a", <<"h","t","t","p",":","/","/","x">>, <<Str(<<"c">>)>>),
                Elem("em", <<ElemAttr("a", <<"h","t","t","p",":","/","/","y">>, <<Str(<<"d">>)>>)>>),
                Str(<<" ">>)>>)

NodeCatalogue ==
    {NodeH1, NodeP, NodePBlank, NodeUl, NodeOl, NodeDiv, NodeDivText, NodePre,
     NodePreEmpty, NodeTable, NodeTableTd, NodeTableEmpty, NodeRich}

Documents == UNION {[1..n -> NodeCatalogue] : n \in 1..MaxNodes}

\* extracted_links of a text with one Markdown link, then one bare URL
TwoLinks ==
    <<[placeholder |-> LinkPlaceholder(0), text |-> <<"T">>, url |-> <<"h","t","t","p",":","/","/","x">>],
      [placeholder |-> UrlPlaceholder(1), text |-> <<"h","t","t","p",":","/","/","y">>, url |-> <<"h","t","t","p",":","/","/","y">>]>>

InitDom ==
    /\ input = <<>>
    /\ pygments = FALSE
    /\ pc = "classify"
    /\ masked = <<>>
    /\ links = TwoLinks
    /\ dom \in Documents
    /\ next = 1
    /\ blocks = <<>>
    /\ bridge = NoBridge
    /\ result = <<>>
    /\ calls = <<>>
    /\ files = {}
    /\ clip = <<>>

NextDom == ClassifyStep \/ FinishConvert \/ Postprocess

SpecDom == InitDom /\ [][NextDom]_vars

\* a table one of whose cells raises: "boom" in the second row
NodeTableFault ==
    Elem("table",
         <<Elem("tr", <<Elem("th", <<Str(<<"A">>)>>)>>),
           Elem("tr", <<Elem("td", <<Str(<<"x">>), Fault(<<"b","o","o","m">>)>>)>>)>>)
\* a table without text whose only cell raises
NodeTableFaultBlank ==
    Elem("table", <<Elem("tr", <<Elem("td", <<Str(<<" ">>), Fault(<<"k">>)>>)>>)>>)
\* a table without cells in its first row: skipped before its cell is processed
NodeTableFaultSkipped ==
    Elem("table", <<Elem("tr", <<>>), Elem("tr", <<Elem("td", <<Fault(<<"k">>)>>)>>)>>)

\* documents of tables that fail among nodes that do not
TableCatalogue ==
    {NodeH1, NodeP, NodeTableTd, NodeTableFault, NodeTableFaultBlank, NodeTableFaultSkipped}

TableDocuments == UNION {[1..n -> TableCatalogue] : n \in 1..MaxNodes}

InitTable ==
    /\ input = <<>>
    /\ pygments = FALSE
    /\ pc = "classify"
    /\ masked = <<>>
    /\ links = TwoLinks
    /\ dom \in TableDocuments
    /\ next = 1
    /\ blocks = <<>>
    /\ bridge = NoBridge
    /\ result = <<>>
    /\ calls = <<>>
    /\ files = {}
    /\ clip = <<>>

SpecTable == InitTable /\ [][NextDom]_vars

-----------------------------------------------------------------------------
(* markdown_converter.py: the facade.  The external bridge is the environment: *)
(* bridge.script says whether markdown_to_notion.js exists, bridge.direct,     *)
(* bridge.npx and bridge.node are the outcomes of the three places that start  *)
(* it and bridge.out is the block list it prints when a run succeeds.          *)

\* a run that exits with status 0 and prints JSON
RunOk(outcome) == outcome = "ok"

\* re  https?://[^\s]+  tried at position i: last index of the match, 0 if none
SimpleUrlEnd(content, i) == UrlBody(content, AfterScheme(content, i), Whitespace)

\* the match that starts at position i (0: there is no match)
SimpleUrlFrom(content, i) ==
    IF i = 0 THEN <<>> ELSE SubSeq(content, i, SimpleUrlEnd(content, i))

\* re.search(r'https?://[^\s]+', content): the matched URL, <<>> if none
SimpleUrlIn(content) ==
    SimpleUrlFrom(content, MinOrZero({i \in 1..Len(content) : SimpleUrlEnd(content, i) # 0}))

\* a text item with content, no link and a URL in its content gets the URL as link
FixRun(run) ==
    IF run.content # <<>> /\ ~run.hasLink /\ SimpleUrlIn(run.content) # <<>>
    THEN [run EXCEPT !.hasLink = TRUE, !.url = SimpleUrlIn(run.content)]
    ELSE run

\* process_table_with_links
process_table_with_links(block) ==
    IF block.type # "table" THEN block
    ELSE [block EXCEPT !.children =
             [r \in 1..Len(@) |-> [c \in 1..Len(@[r]) |->
                 [k \in 1..Len(@[r][c]) |-> FixRun(@[r][c][k])]]]]

\* MarkdownConverter._convert_with_martian: [raised, blocks]
convert_with_martian(md_content, env) ==
    IF md_content = <<>> THEN [raised |-> FALSE, blocks |-> <<>>]
    ELSE IF ~env.script THEN [raised |-> TRUE, blocks |-> <<>>]
    ELSE IF RunOk(env.npx) THEN [raised |-> FALSE, blocks |-> env.out]
    ELSE IF RunOk(env.node) THEN [raised |-> FALSE, blocks |-> env.out]
    ELSE [raised |-> FALSE, blocks |-> <<>>]

\* MarkdownConverter.convert
convert(md_content, use_martian, env, pyg) ==
    IF md_content = <<>> THEN <<>>
    ELSE IF /\ use_martian
            /\ ~convert_with_martian(md_content, env).raised
            /\ convert_with_martian(md_content, env).blocks # <<>>
         THEN convert_with_martian(md_content, env).blocks
    ELSE convert_with_bs4(md_content, pyg)

\* clean_markdown_to_notion_blocks
clean_markdown_to_notion_blocks(md_content, env, pyg) ==
    IF md_content = <<>> THEN <<>>
    ELSE IF ~env.script THEN convert(md_content, TRUE, env, pyg)
    ELSE IF RunOk(env.direct)
         THEN [i \in 1..Len(env.out) |-> process_table_with_links(env.out[i])]
    ELSE convert(md_content, TRUE, env, pyg)

\* markdown_to_notion_blocks; LINK_HANDLER_AVAILABLE is env.link_handler
markdown_to_notion_blocks(md_content, use_martian, fix_links, env, pyg) ==
    IF fix_links /\ env.link_handler
    THEN clean_markdown_to_notion_blocks(md_content, env, pyg)
    ELSE convert(md_content, use_martian, env, pyg)

-----------------------------------------------------------------------------
(* Properties of the link pipeline (specification Spec) *)

\* every run of a block: its rich text and the runs of its table cells
RunsOfBlock(b) ==
    {b.rich_text[i] : i \in 1..Len(b.rich_text)}
    \cup UNION {UNION {{b.children[r][c][k] : k \in 1..Len(b.children[r][c])}
                       : c \in 1..Len(b.children[r])}
                : r \in 1..Len(b.children)}

AllRuns(bs) == UNION {RunsOfBlock(bs[i]) : i \in 1..Len(bs)}

Paragraph(runs) == Block("paragraph", runs)

MdLink(text, url) == <<"[">> \o text \o <<"]", "(">> \o url \o <<")">>

UrlX == <<"h","t","t","p",":","/","/","x">>
UrlY == <<"h","t","t","p",":","/","/","y">>
UrlYZ == <<"h","t","t","p","s",":","/","/","y","/","z">>
UrlDocs == <<"h","t","t","p","s",":","/","/","d","o","c","s",".","e","x","a","m","p","l","e",".","c","o","m">>
UrlOrg == <<"h","t","t","p","s",":","/","/","e","x","a","m","p","l","e",".","o","r","g">>

\* C1: when the pipeline has finished, every link target recorded by the
\* preprocessing is the link of some run of the block tree.
C1_AllTargetsSurvive ==
    pc = "done" =>
        \A k \in 1..Len(links) :
            \E run \in AllRuns(blocks) : run.hasLink /\ run.url = links[k].url

LinkTexts == {<<"T">>, <<"a", " ", "b">>}
LinkUrls == {UrlX, UrlY, UrlYZ}

\* C2: an input that is only the Markdown link [T](U) yields one paragraph with
\* the one run T -> U, and an input that is only the bare URL U yields the one
\* run U -> U.
C2_SingleLinkRoundTrip ==
    pc = "done" =>
        /\ \A T \in LinkTexts, U \in LinkUrls :
              input = MdLink(T, U) => blocks = <<Paragraph(<<LinkRun(T, U)>>)>>
        /\ \A U \in LinkUrls :
              input = U => blocks = <<Paragraph(<<LinkRun(U, U)>>)>>

C2_Witness ==
    /\ pc = "done"
    /\ input = SegMdLink2
    /\ blocks = <<Paragraph(<<LinkRun(<<"a", " ", "b">>, UrlYZ)>>)>>

C2_WitnessBare ==
    /\ pc = "done"
    /\ input = SegBareUrl
    /\ blocks = <<Paragraph(<<LinkRun(UrlY, UrlY)>>)>>

\* C3: the paragraph "Visit [Docs](https://docs.example.com) or
\* https://example.org." comes out as five runs in document order: "Visit ",
\* Docs -> its target, " or ", the bare URL as a link to itself, ".".
C3_MixedParagraphRuns ==
    (pc = "done" /\ input = SegMixed) =>
        blocks = <<Paragraph(<<PlainRun(<<"V","i","s","i","t"," ">>),
                               LinkRun(<<"D","o","c","s">>, UrlDocs),
                               PlainRun(<<" ","o","r"," ">>),
                               LinkRun(UrlOrg, UrlOrg),
                               PlainRun(<<".">>)>>)>>

\* C4: a URL inside a fenced code block, bare or as the target of Markdown link
\* syntax, stays plain text (no run of a code block, and no run at all of an
\* input that is one fenced block, carries a link), while the same URL outside
\* a fence becomes a link.
C4_FenceExclusion ==
    pc = "done" =>
        /\ \A i \in 1..Len(blocks) :
              blocks[i].type = "code" => \A run \in RunsOfBlock(blocks[i]) : ~run.hasLink
        /\ input \in {SegFenceUrl, SegFenceLink} => \A run \in AllRuns(blocks) : ~run.hasLink
        /\ input = SegBareUrl => \E run \in AllRuns(blocks) : run.hasLink /\ run.url = UrlY
        /\ input = SegMdLink => \E run \in AllRuns(blocks) : run.hasLink /\ run.url = UrlX

\* the text holds neither a URL scheme separator nor the "](" of a Markdown link
NoLinkSyntax(s) == ~Contains(s, <<":", "/", "/">>) /\ ~Contains(s, <<"]", "(">>)

\* C9: for a text without Markdown links and URLs the preprocessing returns the
\* text unchanged with an empty placeholder table, the postprocessing leaves
\* the converted blocks as they are, and the result equals the conversion of
\* the text without the link protocol.
C9_NoLinksPassThrough ==
    NoLinkSyntax(input) =>
        /\ pc # "start" => (masked = input /\ links = <<>>)
        /\ pc = "done" => (blocks = ClassifyAll(dom)
                           /\ blocks = convert_with_bs4(input, pygments))

C9_Witness ==
    /\ pc = "done"
    /\ input = SegBracket \o BlankLine \o SegHeading
    /\ Len(blocks) = 2
    /\ links = <<>>

-----------------------------------------------------------------------------
(* Properties of the block classifier (specification SpecDom) *)

\* the node the loop has just visited is a table that yields a Table block
JustBuiltTable ==
    /\ pc = "classify"
    /\ next > 1
    /\ dom[next - 1].name = "table"
    /\ LET rows == find_all(dom[next - 1], {"tr"})
       IN  rows # <<>> /\ find_all(rows[1], {"th", "td"}) # <<>>

\* C5: every row of every Table block has table_width cells; against the
\* table node it was built from, a row with fewer cells than the first row is
\* padded on the right with cells of one empty-content run and a row with more
\* cells keeps its first table_width cells.
C5_TableShape ==
    /\ \A i \in 1..Len(blocks) :
          blocks[i].type = "table" =>
              \A r \in 1..Len(blocks[i].children) :
                  Len(blocks[i].children[r]) = blocks[i].table_width
    /\ JustBuiltTable =>
          LET rows == find_all(dom[next - 1], {"tr"})
              width == Len(find_all(rows[1], {"th", "td"}))
              tb == blocks[Len(blocks)]
          IN  /\ blocks # <<>>
              /\ tb.type = "table"
              /\ tb.table_width = width
              /\ Len(tb.children) = Len(rows)
              /\ \A r \in 1..Len(rows) :
                    LET cells == find_all(rows[r], {"th", "td"})
                    IN  /\ Len(tb.children[r]) = width
                        /\ \A c \in 1..width :
                              tb.children[r][c] =
                                  IF c <= Len(cells)
                                  THEN process_rich_text_element(cells[c])
                                  ELSE <<PlainRun(<<>>)>>

\* a table with a short and a long body row has just been built
C5_Witness ==
    /\ JustBuiltTable
    /\ dom[next - 1] = NodeTable
    /\ blocks[Len(blocks)].table_width = 2
    /\ blocks[Len(blocks)].children[2][2] = <<PlainRun(<<>>)>>
    /\ Len(blocks[Len(blocks)].children[3]) = 2

\* C6 as stated: after final resolution no run of the block tree has empty
\* content.
C6_NoEmptyRun ==
    pc = "done" => \A run \in AllRuns(blocks) : run.content # <<>>

\* C6 amended: a run with empty content is either the single run of a code
\* block whose text is empty or the single, plain run of a table cell, and in a
\* table just built such a cell lies to the right of the cells its row had.
C6_EmptyRunOnlyPaddingOrCode ==
    /\ \A i \in 1..Len(blocks) :
          LET b == blocks[i]
          IN  /\ \A k \in 1..Len(b.rich_text) :
                    b.rich_text[k].content = <<>> => (b.type = "code" /\ Len(b.rich_text) = 1)
              /\ \A r \in 1..Len(b.children) : \A c \in 1..Len(b.children[r]) :
                    (\E k \in 1..Len(b.children[r][c]) : b.children[r][c][k].content = <<>>)
                        => b.children[r][c] = <<PlainRun(<<>>)>>
    /\ JustBuiltTable =>
          LET rows == find_all(dom[next - 1], {"tr"})
              tb == blocks[Len(blocks)]
          IN  \A r \in 1..Len(rows) : \A c \in 1..Len(tb.children[r]) :
                  (\E k \in 1..Len(tb.children[r][c]) : tb.children[r][c][k].content = <<>>)
                      => c > Len(find_all(rows[r], {"th", "td"}))

\* resolution is over and the tree holds a padding run and an empty code run
C6_Witness ==
    /\ pc = "done"
    /\ \E i \in 1..Len(blocks) :
          /\ blocks[i].type = "table"
          /\ Len(blocks[i].children) = 3
          /\ blocks[i].children[2][2] = <<PlainRun(<<>>)>>
    /\ \E i \in 1..Len(blocks) :
          blocks[i].type = "code" /\ blocks[i].rich_text = <<PlainRun(<<>>)>>
    /\ \E run \in AllRuns(blocks) : run.hasLink

\* the block types a heading, a non-empty paragraph and a list are to yield
ExpectedTypes(node) ==
    IF node.name = "h1" THEN <<"heading_1">>
    ELSE IF node.name = "p" THEN <<"paragraph">>
    ELSE IF node.name = "ul" THEN [k \in 1..Len(node.kids) |-> "bulleted_list_item"]
    ELSE [k \in 1..Len(node.kids) |-> "numbered_list_item"]

\* the text each of those blocks is to show: one entry per block
ExpectedTexts(node) ==
    IF node.name \in {"h1", "p"} THEN <<get_text(node)>>
    ELSE [k \in 1..Len(node.kids) |-> get_text(node.kids[k])]

IsOrdered(node) ==
    \/ node.name \in {"h1", "ul", "ol"}
    \/ node.name = "p" /\ Strip(get_text(node)) # <<>>

BlockText(b) == Cat([k \in 1..Len(b.rich_text) |-> b.rich_text[k].content])

\* a text without its whitespace (strings of whitespace alone yield no run)
Squeeze(s) == SelectSeq(s, LAMBDA c : c \notin Whitespace)

\* C7: for a document of headings, non-empty paragraphs and lists, the blocks
\* built so far are, in document order, one Heading per heading, one Paragraph
\* per paragraph and one BulletItem (NumberedItem) per item of an unordered
\* (ordered) list, each showing the text of its own node (whitespace aside).
C7_DocumentOrder ==
    (pc \in {"classify", "converted"} /\ \A i \in 1..(next - 1) : IsOrdered(dom[i])) =>
        /\ [j \in 1..Len(blocks) |-> blocks[j].type]
              = Cat([i \in 1..(next - 1) |-> ExpectedTypes(dom[i])])
        /\ [j \in 1..Len(blocks) |-> Squeeze(BlockText(blocks[j]))]
              = LET texts == Cat([i \in 1..(next - 1) |-> ExpectedTexts(dom[i])])
                IN  [j \in 1..Len(texts) |-> Squeeze(texts[j])]

C7_Witness ==
    /\ pc = "converted"
    /\ dom = <<NodeH1, NodeP, NodeUl>>
    /\ [j \in 1..Len(blocks) |-> blocks[j].type]
          = <<"heading_1", "paragraph", "bulleted_list_item", "bulleted_list_item">>

\* the p nodes of a document: top-level ones and the p children of containers
ParagraphNodes(nodes) ==
    Cat([i \in 1..Len(nodes) |->
            IF nodes[i].name = "p" THEN <<nodes[i]>>
            ELSE IF nodes[i].name \in {"div", "span"} THEN find_children(nodes[i], {"p"})
            ELSE <<>>])

\* a top-level p, or a container that has p children
IsParagraphSource(node) ==
    \/ node.name = "p"
    \/ node.name \in {"div", "span"} /\ find_children(node, {"p"}) # <<>>

\* C8: a paragraph node without non-whitespace text yields no Paragraph block,
\* at the top level or inside a container: a document of paragraphs and of
\* containers of paragraphs yields exactly one block per non-empty p node.
C8_EmptyParagraphSuppressed ==
    (pc = "converted" /\ \A i \in 1..Len(dom) : IsParagraphSource(dom[i])) =>
        Len(blocks) = Len(SelectSeq(ParagraphNodes(dom),
                                    LAMBDA n : Strip(get_text(n)) # <<>>))

-----------------------------------------------------------------------------
(* Calls of the facade (specification SpecFacade) *)

Outcomes == {"ok", "nonzero", "timeout", "badjson"}

\* what the bridge may print: nothing, a paragraph, a table with a URL in a cell
BridgeOutputs ==
    {<<>>,
     <<Paragraph(<<PlainRun(<<"m">>)>>)>>,
     <<[Block("table", <<>>) EXCEPT !.table_width = 1,
                                    !.children = <<<<<<PlainRun(UrlX)>>>>>>]>>}

Environments ==
    {[script |-> FALSE, link_handler |-> lh, direct |-> "none", npx |-> "none",
      node |-> "none", out |-> <<>>] : lh \in BOOLEAN}
    \cup [script : {TRUE}, link_handler : BOOLEAN, direct : Outcomes, npx : Outcomes,
          node : Outcomes, out : BridgeOutputs]

\* the facade is called with one chunk of Markdown, or with the empty string
FacadeInputs == Catalogue \cup {<<>>}

InitFacade ==
    /\ input \in FacadeInputs
    /\ pygments \in BOOLEAN
    /\ pc = "call"
    /\ masked = <<>>
    /\ links = <<>>
    /\ dom = <<>>
    /\ next = 1
    /\ blocks = <<>>
    /\ bridge \in Environments
    /\ result = <<>>
    /\ calls = <<>>
    /\ files = {}
    /\ clip = <<>>

\* markdown_to_notion_blocks(md_content, use_martian, fix_links=True or False)
CallFacade ==
    /\ pc = "call"
    /\ \E use_martian \in BOOLEAN, fix_links \in BOOLEAN :
          /\ result' = markdown_to_notion_blocks(input, use_martian, fix_links,
                                                 bridge, pygments)
          /\ pc' = IF ~fix_links /\ ~use_martian THEN "returned_builtin"
                   ELSE "returned"
    /\ UNCHANGED <<input, pygments, masked, links, dom, next, blocks, bridge, calls, files, clip>>

NextFacade == CallFacade

SpecFacade == InitFacade /\ [][NextFacade]_vars

\* the built-in parser produced the blocks: the bridge was not asked, is not
\* there, or failed at every place that starts it
BuiltInBackend ==
    \/ pc = "returned_builtin"
    \/ pc = "returned" /\ ~bridge.script
    \/ pc = "returned" /\ ~RunOk(bridge.direct) /\ ~RunOk(bridge.npx) /\ ~RunOk(bridge.node)

\* postprocess(backend(masked), placeholders) for pre = (masked, placeholders)
WrappedBackend(pre, pyg) ==
    postprocess_notion_blocks(convert_with_bs4(pre.text, pyg), pre.links)

\* C10: the facade wraps the backend in the link protocol: with the built-in
\* parser as backend its result is postprocess(backend(masked), placeholders)
\* for (masked, placeholders) = preprocess(input).
C10_FacadeWrapsBackend ==
    BuiltInBackend => result = WrappedBackend(preprocess_markdown_links(input), pygments)

-----------------------------------------------------------------------------
(* markdown_converter.py, step by step: concurrent callers of                  *)
(* markdown_to_notion_blocks.  A call is a record; pc is its position, temp   *)
(* the scratch file of clean_markdown_to_notion_blocks, mtemp the one of      *)
(* _convert_with_martian, direct / npx / node the outcomes of the bridge runs *)
(* that decide the value returned, starts the number of bridge processes the  *)
(* call has started.  files holds [name, owner] for every scratch file that   *)
(* exists.  bridge.script and bridge.link_handler are the installation.       *)

MaxCallers == 2     \* concurrent callers
MaxScratch == 3     \* names the temporary directory can give out

Callers == 1..MaxCallers
ScratchNames == 1..MaxScratch

\* what the bridge prints on a run that exits with status 0
CallOutputs ==
    {<<>>,
     <<[Block("table", <<>>) EXCEPT !.table_width = 1,
                                    !.children = <<<<<<PlainRun(UrlX)>>>>>>]>>}

\* the call as it is entered
NewCall(md_content, use_martian, fix_links, debug) ==
    [input |-> md_content, use_martian |-> use_martian, fix_links |-> fix_links,
     debug |-> debug, pc |-> "entry", ctx |-> "main", use_m |-> use_martian,
     temp |-> 0, mtemp |-> 0, direct |-> "none", npx |-> "none", node |-> "none",
     out |-> <<>>, m |-> <<>>, v |-> <<>>, ret |-> <<>>, raised |-> FALSE,
     starts |-> 0]

\* the bridge as the runs of the call that decided its value saw it
EnvOf(c) ==
    [script |-> bridge.script, link_handler |-> bridge.link_handler,
     direct |-> c.direct, npx |-> c.npx, node |-> c.node, out |-> c.out]

\* the names that are taken
Taken == {f.name : f \in files}

\* tempfile.NamedTemporaryFile(delete=False): a name no existing file has.
\* Names are compared and never inspected, so the least free name stands for
\* whichever one the operating system picks.
FreshNames == {n \in ScratchNames \ Taken : 1..(n - 1) \subseteq Taken}

\* os.unlink of the scratch file a call holds (0: it holds none)
Unlink(fs, caller, name) == fs \ {[name |-> name, owner |-> caller]}

\* convert without its try / except around _convert_with_martian
MartianHandler_Uncaught == [pc |-> "done", raised |-> TRUE]

\* where an exception raised inside _convert_with_martian continues: convert's
\* except clause, then the built-in parser
MartianHandler == [pc |-> "bs4", raised |-> FALSE]

\* clean_markdown_to_notion_blocks without its except clauses; C30 must fail
\* on it
CleanHandler_Uncaught == [pc |-> "done", raised |-> TRUE]

\* where an exception raised inside the try of clean_markdown_to_notion_blocks
\* continues: its except clauses call convert with a new MarkdownConverter
CleanHandler == [pc |-> "v_start", raised |-> FALSE]

\* a bridge process is started
Started(c) == [c EXCEPT !.starts = @ + 1]

\* the call c of caller k takes a step to the record r
Set(k, r) == calls' = [calls EXCEPT ![k] = r]

\* everything but the calls and the scratch files
Installation == <<input, pygments, pc, masked, links, dom, next, blocks, bridge, result, clip>>

\* markdown_to_notion_blocks: if fix_links and LINK_HANDLER_AVAILABLE the call
\* goes to clean_markdown_to_notion_blocks; otherwise debug_markdown_conversion
\* runs first when debug is set, then MarkdownConverter(use_martian).convert
Enter(k) ==
    /\ calls[k].pc = "entry"
    /\ Set(k, IF calls[k].fix_links /\ bridge.link_handler
              THEN [calls[k] EXCEPT !.pc = "clean"]
              ELSE IF calls[k].debug
              THEN [calls[k] EXCEPT !.pc = "v_start", !.ctx = "debug", !.use_m = TRUE]
              ELSE [calls[k] EXCEPT !.pc = "v_start", !.ctx = "main",
                                    !.use_m = calls[k].use_martian])
    /\ UNCHANGED <<files, Installation>>

\* clean_markdown_to_notion_blocks: empty input, missing script
CleanStart(k) ==
    /\ calls[k].pc = "clean"
    /\ Set(k, IF calls[k].input = <<>>
              THEN [calls[k] EXCEPT !.ret = <<>>, !.pc = "after_main"]
              ELSE IF ~bridge.script
              THEN [calls[k] EXCEPT !.pc = "v_start", !.ctx = "main", !.use_m = TRUE]
              ELSE [calls[k] EXCEPT !.pc = "c_create"])
    /\ UNCHANGED <<files, Installation>>

\* with tempfile.NamedTemporaryFile(...) as temp: temp.write(md_content);
\* temp_file = temp.name.  The file may not be created, and the write may fail
\* after it was created; both raise into the outer except clause.
CleanCreate(k) ==
    /\ calls[k].pc = "c_create"
    /\ \/ /\ Set(k, [calls[k] EXCEPT !.pc = CleanHandler.pc, !.raised = CleanHandler.raised,
                                     !.ctx = "main", !.use_m = TRUE])
          /\ UNCHANGED files
       \/ \E n \in FreshNames :
             /\ files' = files \cup {[name |-> n, owner |-> k]}
             /\ \/ Set(k, [calls[k] EXCEPT !.temp = n, !.pc = "c_run"])
                \/ Set(k, [calls[k] EXCEPT !.pc = CleanHandler.pc,
                                           !.raised = CleanHandler.raised,
                                           !.ctx = "main", !.use_m = TRUE])
    /\ UNCHANGED Installation

\* subprocess.run("node script --file=temp_file"), json.loads, the tables
CleanRun(k) ==
    /\ calls[k].pc = "c_run"
    /\ \E o \in Outcomes :
          IF RunOk(o)
          THEN \E out \in CallOutputs :
                  Set(k, [Started(calls[k]) EXCEPT
                             !.direct = o, !.out = out,
                             !.ret = [i \in 1..Len(out) |-> process_table_with_links(out[i])],
                             !.pc = "c_finally"])
          ELSE Set(k, [Started(calls[k]) EXCEPT
                          !.direct = o, !.pc = CleanHandler.pc,
                          !.raised = CleanHandler.raised,
                          !.ctx = "main", !.use_m = TRUE])
    /\ UNCHANGED <<files, Installation>>

\* finally: if os.path.exists(temp_file): os.unlink(temp_file)
CleanFinally(k) ==
    /\ calls[k].pc = "c_finally"
    /\ files' = Unlink(files, k, calls[k].temp)
    /\ Set(k, [calls[k] EXCEPT !.temp = 0, !.pc = "after_main"])
    /\ UNCHANGED Installation

\* back in markdown_to_notion_blocks: if debug: debug_markdown_conversion
AfterClean(k) ==
    /\ calls[k].pc = "after_main"
    /\ Set(k, IF calls[k].debug
              THEN [calls[k] EXCEPT !.pc = "v_start", !.ctx = "debug", !.use_m = TRUE]
              ELSE [calls[k] EXCEPT !.pc = "done"])
    /\ UNCHANGED <<files, Installation>>

\* MarkdownConverter.convert: empty input, use_martian
ConvertStart(k) ==
    /\ calls[k].pc = "v_start"
    /\ Set(k, IF calls[k].input = <<>>
              THEN [calls[k] EXCEPT !.v = <<>>, !.pc = "v_end"]
              ELSE IF calls[k].use_m THEN [calls[k] EXCEPT !.pc = "m_check"]
              ELSE [calls[k] EXCEPT !.pc = "bs4"])
    /\ UNCHANGED <<files, Installation>>

\* _convert_with_martian: if not os.path.exists(script_path): raise
MartianCheck(k) ==
    /\ calls[k].pc = "m_check"
    /\ Set(k, IF ~bridge.script
              THEN [calls[k] EXCEPT !.pc = MartianHandler.pc,
                                    !.raised = MartianHandler.raised]
              ELSE [calls[k] EXCEPT !.pc = "m_create"])
    /\ UNCHANGED <<files, Installation>>

\* temp_file = None; with tempfile.NamedTemporaryFile(...) as temp:
\* temp.write(md_content); temp_file = temp.name.  When the write fails
\* temp_file is still None and the finally clause removes nothing.
MartianCreate(k) ==
    /\ calls[k].pc = "m_create"
    /\ \/ /\ Set(k, [calls[k] EXCEPT !.pc = MartianHandler.pc,
                                     !.raised = MartianHandler.raised])
          /\ UNCHANGED files
       \/ \E n \in FreshNames :
             /\ files' = files \cup {[name |-> n, owner |-> k]}
             /\ \/ Set(k, [calls[k] EXCEPT !.mtemp = n, !.pc = "m_npx"])
                \/ Set(k, [calls[k] EXCEPT !.pc = MartianHandler.pc,
                                           !.raised = MartianHandler.raised])
    /\ UNCHANGED Installation

\* a bridge run of _convert_with_martian has ended with outcome o and printed
\* out: the runs of debug_markdown_conversion's converter decide nothing
Ran(c, run, o, out) ==
    IF c.ctx = "main" THEN [Started(c) EXCEPT ![run] = o, !.out = out]
    ELSE Started(c)

\* npx -y @tryfabric/martian node script --file=temp_file
MartianNpx(k) ==
    /\ calls[k].pc = "m_npx"
    /\ \E o \in Outcomes :
          IF RunOk(o)
          THEN \E out \in CallOutputs :
                  Set(k, [Ran(calls[k], "npx", o, out) EXCEPT !.m = out, !.pc = "m_finally"])
          ELSE Set(k, [Ran(calls[k], "npx", o, calls[k].out) EXCEPT !.pc = "m_node"])
    /\ UNCHANGED <<files, Installation>>

\* node script --file=temp_file; "If we got here, both attempts failed"
MartianNode(k) ==
    /\ calls[k].pc = "m_node"
    /\ \E o \in Outcomes :
          IF RunOk(o)
          THEN \E out \in CallOutputs :
                  Set(k, [Ran(calls[k], "node", o, out) EXCEPT !.m = out, !.pc = "m_finally"])
          ELSE Set(k, [Ran(calls[k], "node", o, calls[k].out) EXCEPT
                          !.m = <<>>, !.pc = "m_finally"])
    /\ UNCHANGED <<files, Installation>>

\* finally: os.unlink(temp_file); back in convert: if blocks: return blocks
MartianFinally(k) ==
    /\ calls[k].pc = "m_finally"
    /\ files' = Unlink(files, k, calls[k].mtemp)
    /\ Set(k, IF calls[k].m # <<>>
              THEN [calls[k] EXCEPT !.mtemp = 0, !.v = calls[k].m, !.m = <<>>, !.pc = "v_end"]
              ELSE [calls[k] EXCEPT !.mtemp = 0, !.pc = "bs4"])
    /\ UNCHANGED Installation

\* return self._convert_with_bs4(md_content)
BuiltIn(k) ==
    /\ calls[k].pc = "bs4"
    /\ Set(k, [calls[k] EXCEPT !.v = convert_with_bs4(calls[k].input, pygments),
                               !.pc = "v_end"])
    /\ UNCHANGED <<files, Installation>>

\* the "blocks" of debug_info become the value of the call
DebugInfo_Returned(c) == [c EXCEPT !.ret = c.v, !.v = <<>>]

\* debug_info = debug_markdown_conversion(debug_content): its URLs are printed,
\* its "blocks" are dropped
DebugInfo(c) == [c EXCEPT !.v = <<>>]

\* convert returns: to debug_markdown_conversion, whose value is printed and
\* dropped; to clean_markdown_to_notion_blocks, which returns it through its
\* finally clause; to markdown_to_notion_blocks, which returns it
ConvertEnd(k) ==
    /\ calls[k].pc = "v_end"
    /\ Set(k, IF calls[k].ctx = "debug"
              THEN IF calls[k].fix_links /\ bridge.link_handler
                   THEN [DebugInfo(calls[k]) EXCEPT !.ctx = "main", !.pc = "done"]
                   ELSE [DebugInfo(calls[k]) EXCEPT !.ctx = "main", !.pc = "v_start",
                                                    !.use_m = calls[k].use_martian]
              ELSE IF calls[k].fix_links /\ bridge.link_handler
                   THEN [calls[k] EXCEPT !.ret = calls[k].v, !.v = <<>>, !.pc = "c_finally"]
                   ELSE [calls[k] EXCEPT !.ret = calls[k].v, !.v = <<>>, !.pc = "done"])
    /\ UNCHANGED <<files, Installation>>

\* the inputs of the callers: the empty string and a text with a URL
CallInputs == {<<>>, SegBareUrl}

\* one call at a time, with every combination of the flags
InitCalls ==
    /\ input = <<>>
    /\ pygments = FALSE
    /\ pc = "calls"
    /\ masked = <<>>
    /\ links = <<>>
    /\ dom = <<>>
    /\ next = 1
    /\ blocks = <<>>
    /\ bridge \in {[NoBridge EXCEPT !.script = sc, !.link_handler = lh] :
                      sc \in BOOLEAN, lh \in BOOLEAN}
    /\ result = <<>>
    /\ calls \in [{1} -> {NewCall(md, um, fl, dbg) :
                                 md \in CallInputs, um \in BOOLEAN, fl \in BOOLEAN,
                                 dbg \in BOOLEAN}]
    /\ files = {}
    /\ clip = <<>>

NextCalls ==
    \/ \E k \in DOMAIN calls : Enter(k)
    \/ \E k \in DOMAIN calls : CleanStart(k)
    \/ \E k \in DOMAIN calls : CleanCreate(k)
    \/ \E k \in DOMAIN calls : CleanRun(k)
    \/ \E k \in DOMAIN calls : CleanFinally(k)
    \/ \E k \in DOMAIN calls : AfterClean(k)
    \/ \E k \in DOMAIN calls : ConvertStart(k)
    \/ \E k \in DOMAIN calls : MartianCheck(k)
    \/ \E k \in DOMAIN calls : MartianCreate(k)
    \/ \E k \in DOMAIN calls : MartianNpx(k)
    \/ \E k \in DOMAIN calls : MartianNode(k)
    \/ \E k \in DOMAIN calls : MartianFinally(k)
    \/ \E k \in DOMAIN calls : BuiltIn(k)
    \/ \E k \in DOMAIN calls : ConvertEnd(k)

SpecCalls == InitCalls /\ [][NextCalls]_vars

\* concurrent callers on an installation that has the bridge script: each
\* converts a text with a URL through the bridge, with or without fix_links
InitScratch ==
    /\ input = <<>>
    /\ pygments = FALSE
    /\ pc = "calls"
    /\ masked = <<>>
    /\ links = <<>>
    /\ dom = <<>>
    /\ next = 1
    /\ blocks = <<>>
    /\ bridge = [NoBridge EXCEPT !.script = TRUE, !.link_handler = TRUE]
    /\ result = <<>>
    /\ calls \in [Callers -> {NewCall(SegBareUrl, TRUE, fl, FALSE) : fl \in BOOLEAN}]
    /\ files = {}
    /\ clip = <<>>

SpecScratch == InitScratch /\ [][NextCalls]_vars

-----------------------------------------------------------------------------
(* Properties of one call (SpecCalls)                                         *)

\* the call has returned or raised
Done(c) == c.pc = "done"

\* no bridge run that decides the value of the call succeeded: the script is
\* missing, or each run that was made exited non-zero, timed out or printed
\* malformed JSON
BridgeFailed(c) == ~RunOk(c.direct) /\ ~RunOk(c.npx) /\ ~RunOk(c.node)

\* C11: when the bridge is unavailable, exits non-zero, times out or prints
\* malformed JSON, convert and clean_markdown_to_notion_blocks raise nothing
\* and return the blocks of the built-in parser for the same input.
C11_FallbackToBuiltIn ==
    \A k \in DOMAIN calls :
        Done(calls[k]) /\ BridgeFailed(calls[k])
            => /\ ~calls[k].raised
               /\ calls[k].ret = convert_with_bs4(calls[k].input, pygments)

\* the direct run timed out, npx exited non-zero, node printed malformed JSON
C11_Witness ==
    \E k \in DOMAIN calls :
        /\ Done(calls[k])
        /\ calls[k].direct = "timeout" /\ calls[k].npx = "nonzero" /\ calls[k].node = "badjson"
        /\ calls[k].ret # <<>>

\* the script is missing and convert was entered with use_martian set
C11_WitnessNoScript ==
    \E k \in DOMAIN calls :
        /\ Done(calls[k]) /\ ~bridge.script /\ calls[k].use_martian
        /\ calls[k].ret # <<>>

C17_NoBridgeWithoutMartian ==
    \A k \in DOMAIN calls : ~calls[k].use_martian => calls[k].starts = 0

-----------------------------------------------------------------------------
(* Properties of concurrent calls (SpecScratch)                               *)

\* the scratch files caller k has created and that still exist
ScratchOf(k) == {f \in files : f.owner = k}

\* C12: on every exit path of a bridge-backed call, a failure while writing
\* the scratch file included, no scratch file of the call exists when the
\* call ends, whatever the other callers do.
C12_NoScratchLeft ==
    \A k \in DOMAIN calls : Done(calls[k]) => ScratchOf(k) = {}

-----------------------------------------------------------------------------
(* markdown_converter.py: input normalization.  A value passed as md_content  *)
(* is a string, or an object described by what the code asks of it: the name  *)
(* of its class, what str() does, whether it has to_json and what that does,  *)
(* whether it has __iter__ and whether joining its items works, and its truth *)
(* value.  MARKDOWN_LIBS_AVAILABLE is taken to be true.                       *)

TextValue(t) == [kind |-> "text", text |-> t]

ObjectValues ==
    [kind : {"object"}, cls : {"List", "Other"}, str : {"text", "blank", "raises"},
     to_json : {"absent", "text", "raises"}, iter : {"absent", "items", "raises"},
     truthy : BOOLEAN]

\* str(md_content), md_content.to_json(), '\n'.join(str(item) ...) when they work
StrText(v) == IF v.str = "blank" THEN <<" ">> ELSE SegPlain
JsonText == SegHeading
JoinText == SegBareUrl

\* how a normalization ends: with a value, by returning [], by raising
Value(v) == [outcome |-> "value", value |-> v]
ReturnEmpty == [outcome |-> "return", value |-> TextValue(<<>>)]
Raise == [outcome |-> "raise", value |-> TextValue(<<>>)]

\* bool(md_content)
Truthy(v) == IF v.kind = "text" THEN v.text # <<>> ELSE v.truthy

\* '\n'.join([str(item) for item in md_content]) outside any try
JoinItems(v) == IF v.iter = "items" THEN Value(TextValue(JoinText)) ELSE Raise

\* convert, lines 56-68: only for a class named List; to_json() and the join
\* are outside the try
NormalizeList(v) ==
    IF v.kind = "text" THEN Value(v)
    ELSE IF v.cls # "List" THEN Value(v)
    ELSE IF v.str # "raises" THEN Value(TextValue(StrText(v)))
    ELSE IF v.to_json = "text" THEN Value(TextValue(JsonText))
    ELSE IF v.to_json = "raises" THEN Raise
    ELSE JoinItems(v)

\* the except branch of _convert_with_martian and _convert_with_bs4: without
\* to_json nothing is assigned and md_content stays the object
NormalizeExcept(v) ==
    IF v.to_json = "absent" THEN Value(v)
    ELSE IF v.to_json = "text" THEN Value(TextValue(JsonText))
    ELSE IF v.iter = "absent" THEN ReturnEmpty
    ELSE JoinItems(v)

\* _convert_with_martian lines 96-120, _convert_with_bs4 lines 202-227
Normalize(v) ==
    IF v.kind = "text" THEN Value(v)
    ELSE IF v.str = "raises" THEN NormalizeExcept(v)
    ELSE IF v.iter # "absent" /\ Strip(StrText(v)) = <<>>
         THEN IF v.iter = "items" THEN Value(TextValue(JoinText)) ELSE NormalizeExcept(v)
    ELSE Value(TextValue(StrText(v)))

\* _convert_with_martian on the outcome n of its normalization: an object
\* that is still no string fails at temp.write (or at the missing script)
MartianOf(n, env) ==
    IF n.outcome = "raise" THEN [raised |-> TRUE, blocks |-> <<>>]
    ELSE IF n.outcome = "return" \/ ~Truthy(n.value) THEN [raised |-> FALSE, blocks |-> <<>>]
    ELSE IF n.value.kind = "object" THEN [raised |-> TRUE, blocks |-> <<>>]
    ELSE convert_with_martian(n.value.text, env)

\* _convert_with_bs4 on the outcome n of its normalization: an object that is
\* still no string fails in markdown.markdown
Bs4Of(n, pyg) ==
    IF n.outcome = "raise" THEN [raised |-> TRUE, blocks |-> <<>>]
    ELSE IF n.outcome = "return" \/ ~Truthy(n.value) THEN [raised |-> FALSE, blocks |-> <<>>]
    ELSE IF n.value.kind = "object" THEN [raised |-> TRUE, blocks |-> <<>>]
    ELSE [raised |-> FALSE, blocks |-> convert_with_bs4(n.value.text, pyg)]

\* convert after lines 56-68 ended in n
ConvertNormalized(n, use_martian, env, pyg) ==
    IF n.outcome = "raise" THEN [raised |-> TRUE, blocks |-> <<>>]
    ELSE IF ~Truthy(n.value) THEN [raised |-> FALSE, blocks |-> <<>>]
    ELSE IF /\ use_martian
            /\ ~MartianOf(Normalize(n.value), env).raised
            /\ MartianOf(Normalize(n.value), env).blocks # <<>>
         THEN MartianOf(Normalize(n.value), env)
    ELSE Bs4Of(Normalize(n.value), pyg)

\* MarkdownConverter(use_martian).convert(md_content) for any value
ConvertValue(v, use_martian, env, pyg) ==
    ConvertNormalized(NormalizeList(v), use_martian, env, pyg)

\* the values convert is called with
NormValues == ObjectValues \cup {TextValue(<<>>), TextValue(SegPlain)}

\* the installation has no bridge script, or one whose npx run prints a block
NormBridges ==
    {NoBridge,
     [NoBridge EXCEPT !.script = TRUE, !.npx = "ok",
                      !.out = <<Paragraph(<<PlainRun(<<"m">>)>>)>>]}

InitNorm ==
    /\ input \in NormValues
    /\ pygments = FALSE
    /\ pc = "convert"
    /\ masked = <<>>
    /\ links = <<>>
    /\ dom = <<>>
    /\ next = 1
    /\ blocks = <<>>
    /\ bridge \in NormBridges
    /\ result = <<>>
    /\ calls = <<>>
    /\ files = {}
    /\ clip = <<>>

\* the value convert ended with is kept, and whether it returned or raised
Converted(r) ==
    /\ result' = r.blocks
    /\ pc' = IF r.raised THEN "convert_raised" ELSE "convert_returned"

CallConvert ==
    /\ pc = "convert"
    /\ \E use_martian \in BOOLEAN : Converted(ConvertValue(input, use_martian, bridge, pygments))
    /\ UNCHANGED <<input, pygments, masked, links, dom, next, blocks, bridge, calls, files, clip>>

NextNorm == CallConvert

SpecNorm == InitNorm /\ [][NextNorm]_vars

\* string conversion fails, and no iterable join and no structured-to-text
\* conversion succeeds
CannotNormalize(v) ==
    /\ v.kind = "object"
    /\ v.str = "raises"
    /\ v.to_json # "text"
    /\ v.iter # "items"

\* C13: for an input that cannot be normalized to a string, convert returns
\* the empty block sequence and propagates no exception.
C13_NormalizationNeverRaises ==
    pc \in {"convert_returned", "convert_raised"} /\ CannotNormalize(input)
        => pc = "convert_returned" /\ result = <<>>

-----------------------------------------------------------------------------
(* Properties of failing tables (SpecTable)                                   *)

\* the processing of this table node fails
TableFails(node) == node.name = "table" /\ RaisedIn(find_all(node, {"tr"})) # <<>>

\* the paragraph describing the failure of a table node
Diagnostic(node) ==
    Paragraph(<<PlainRun(TableErrorPrefix \o RaisedIn(find_all(node, {"tr"}))[1].attr
                         \o <<"]">>)>>)

\* the paragraph holding the flattened text of a table node
Flattened(node) == Paragraph(<<PlainRun(Strip(get_text(node)))>>)

TwoParagraphs(node) == <<Diagnostic(node), Flattened(node)>>

ParagraphsOfFailure(node) ==
    IF Strip(get_text(node)) = <<>> THEN <<Diagnostic(node)>>
    ELSE <<Diagnostic(node), Flattened(node)>>

\* what a node is to contribute: a failing table the two paragraphs (always,
\* or the second one for a text that is not blank), another node its blocks
Contribution(node, always) ==
    IF ~TableFails(node) THEN ClassifyElement(node)
    ELSE IF always THEN TwoParagraphs(node)
    ELSE ParagraphsOfFailure(node)

\* the blocks so far are the contributions of the nodes classified so far, in
\* the order of the nodes
InPosition(always) ==
    pc \in {"classify", "converted"} =>
        blocks = Cat([i \in 1..(next - 1) |-> Contribution(dom[i], always)])

\* C14 as stated: a table whose processing fails contributes, in its position,
\* a diagnostic Paragraph followed by a Paragraph with its flattened text; the
\* blocks of the nodes before and after it are emitted.
C14_FailureGivesTwoParagraphs == InPosition(TRUE)

\* C14 amended: the Paragraph with the flattened text follows the diagnostic
\* Paragraph exactly when that text is not blank.
C14_FailureGivesParagraphs == InPosition(FALSE)

\* a heading, a failing table with text, a paragraph: all converted
C14_Witness ==
    /\ pc = "converted"
    /\ dom = <<NodeH1, NodeTableFault, NodeP>>
    /\ [j \in 1..Len(blocks) |-> blocks[j].type]
          = <<"heading_1", "paragraph", "paragraph", "paragraph">>
    /\ blocks[3].rich_text = <<PlainRun(<<"A", "x">>)>>

-----------------------------------------------------------------------------
(* link_handler.py, step by step: concurrent calls of fix_markdown_links with *)
(* the built-in parser as converter_func.  A call is a record: pc is its      *)
(* position, extracted_links, processed_content and blocks are its locals.    *)

\* the call as it is entered
NewLinkCall(markdown_content) ==
    [input |-> markdown_content, pc |-> "enter", extracted_links |-> <<>>,
     processed_content |-> <<>>, blocks |-> <<>>]

\* the tables of all the calls, one after the other
AllTables == Cat([k \in DOMAIN calls |-> calls[k].extracted_links])

\* a faulty table that lives outside the call and keeps what other calls put
\* into it; C16 must fail on it
NewTable_Shared(tables) == tables

\* extracted_links = []  at the start of preprocess_markdown_links
NewTable(tables) == <<>>

\* the call's locals after a pass that ended in r = [text, links]
Passed(c, r, to) ==
    [c EXCEPT !.processed_content = r.text, !.extracted_links = r.links, !.pc = to]

\* preprocess_markdown_links is entered
EnterLinks(k) ==
    /\ calls[k].pc = "enter"
    /\ Set(k, [calls[k] EXCEPT !.extracted_links = NewTable(AllTables), !.pc = "md_links"])
    /\ UNCHANGED <<files, Installation>>

\* re.sub over the Markdown links
MaskMdLinks(k) ==
    /\ calls[k].pc = "md_links"
    /\ Set(k, Passed(calls[k],
                     ReplaceMarkdownLinksFrom(calls[k].input, calls[k].extracted_links),
                     "bare_urls"))
    /\ UNCHANGED <<files, Installation>>

\* the loop over the lines, re.sub over the bare URLs
MaskBareUrls(k) ==
    /\ calls[k].pc = "bare_urls"
    /\ Set(k, Passed(calls[k],
                     MaskLines(calls[k].input, SplitLines(calls[k].processed_content),
                               calls[k].extracted_links),
                     "convert"))
    /\ UNCHANGED <<files, Installation>>

\* blocks = converter_func(processed_content)
ConvertLinks(k) ==
    /\ calls[k].pc = "convert"
    /\ Set(k, [calls[k] EXCEPT
                  !.blocks = convert_with_bs4(calls[k].processed_content, pygments),
                  !.pc = "restore"])
    /\ UNCHANGED <<files, Installation>>

\* if extracted_links: blocks = postprocess_notion_blocks(...); return blocks
RestoreLinks(k) ==
    /\ calls[k].pc = "restore"
    /\ Set(k, [calls[k] EXCEPT
                  !.blocks = IF calls[k].extracted_links # <<>>
                             THEN postprocess_notion_blocks(calls[k].blocks,
                                                            calls[k].extracted_links)
                             ELSE calls[k].blocks,
                  !.pc = "done"])
    /\ UNCHANGED <<files, Installation>>

\* the texts the concurrent calls convert
LinkInputs == {SegPlain, SegMdLink, SegBareUrl, SegMixed}

InitLinks ==
    /\ input = <<>>
    /\ pygments = FALSE
    /\ pc = "calls"
    /\ masked = <<>>
    /\ links = <<>>
    /\ dom = <<>>
    /\ next = 1
    /\ blocks = <<>>
    /\ bridge = NoBridge
    /\ result = <<>>
    /\ calls \in [Callers -> {NewLinkCall(md) : md \in LinkInputs}]
    /\ files = {}
    /\ clip = <<>>

NextLinks ==
    \/ \E k \in DOMAIN calls : EnterLinks(k)
    \/ \E k \in DOMAIN calls : MaskMdLinks(k)
    \/ \E k \in DOMAIN calls : MaskBareUrls(k)
    \/ \E k \in DOMAIN calls : ConvertLinks(k)
    \/ \E k \in DOMAIN calls : RestoreLinks(k)

SpecLinks == InitLinks /\ [][NextLinks]_vars

\* the placeholders of a table are numbered from 0 in the order of the entries
NumberedFromZero(table) ==
    \A i \in 1..Len(table) :
        table[i].placeholder \in {LinkPlaceholder(i - 1), UrlPlaceholder(i - 1)}

\* C16: no state is shared across calls: the placeholder table of a call is
\* created empty and numbered from 0, a call returns what fix_markdown_links
\* gives for its input alone, and two calls with the same input return equal
\* block sequences, whatever the other calls did before or in between.
C16_CallsShareNothing ==
    /\ \A k \in DOMAIN calls :
          /\ calls[k].pc = "md_links" => calls[k].extracted_links = <<>>
          /\ NumberedFromZero(calls[k].extracted_links)
          /\ calls[k].pc = "done" =>
                 calls[k].blocks = fix_markdown_links(calls[k].input, pygments)
    /\ \A k1 \in DOMAIN calls, k2 \in DOMAIN calls :
          calls[k1].pc = "done" /\ calls[k2].pc = "done" /\ calls[k1].input = calls[k2].input
              => calls[k1].blocks = calls[k2].blocks

\* two calls with the same input with links have both returned, the second
\* having entered after the first had filled its table
C16_Witness ==
    /\ calls[1].input = SegMixed /\ calls[2].input = SegMixed
    /\ calls[1].pc = "done" /\ calls[2].pc = "done"
    /\ Len(calls[1].extracted_links) = 2
    /\ calls[1].blocks = calls[2].blocks

-----------------------------------------------------------------------------
(* explainclip/design.py: Design.clamp_to_frame.  Lengths are whole numbers   *)
(* of a grid unit; the frame is centred on the origin.  A mobject is its      *)
(* bounding box: left and bottom edge, width and height.                      *)

FrameHalfW == 3     \* frame_w / 2 in grid units
FrameHalfH == 2     \* frame_h / 2 in grid units
SafeMargin == 1     \* theme.safe_margin in grid units
MaxReach == 6       \* how far from the origin a mobject's edge is placed
MaxSize == 7        \* the largest width or height of a mobject
MaxMargin == 1      \* the largest margin passed explicitly

Mobject(left, bottom, width, height) ==
    [left |-> left, bottom |-> bottom, width |-> width, height |-> height]

get_left(mob) == mob.left
get_right(mob) == mob.left + mob.width
get_bottom(mob) == mob.bottom
get_top(mob) == mob.bottom + mob.height

\* mobject.shift(RIGHT * sx + UP * sy)
shift(mob, sx, sy) == [mob EXCEPT !.left = @ + sx, !.bottom = @ + sy]

\* m = margin if margin is not None else self.safe_margin
\* (None is the empty sequence, a margin m the sequence of m alone)
MarginOf(margin) == IF margin = <<>> THEN SafeMargin ELSE margin[1]

\* a faulty shift that never looks at the left (bottom) edge; C18 must fail on it
ShiftAlong_HighOnly(low, high, lo, hi) == IF high > hi THEN hi - high ELSE 0

\* sx (sy): the test of the right (top) edge comes first, the test of the left
\* (bottom) edge second and overwrites it
ShiftAlong(low, high, lo, hi) ==
    IF low < lo THEN lo - low
    ELSE IF high > hi THEN hi - high
    ELSE 0

\* clamp_to_frame with the margin m in force
ClampWithin(mob, m) ==
    shift(mob,
          ShiftAlong(get_left(mob), get_right(mob), -FrameHalfW + m, FrameHalfW - m),
          ShiftAlong(get_bottom(mob), get_top(mob), -FrameHalfH + m, FrameHalfH - m))

clamp_to_frame(mob, margin) == ClampWithin(mob, MarginOf(margin))

Mobjects ==
    {Mobject(l, b, w, h) : l \in -MaxReach..MaxReach, b \in -MaxReach..MaxReach,
                           w \in 0..MaxSize, h \in 0..MaxSize}

InitClamp ==
    /\ input = <<>>
    /\ pygments = FALSE
    /\ pc = "clamp"
    /\ masked = <<>>
    /\ links = <<>>
    /\ dom = <<>>
    /\ next = 1
    /\ blocks = <<>>
    /\ bridge = NoBridge
    /\ result = <<>>
    /\ calls = <<>>
    /\ files = {}
    /\ clip \in {[pc |-> "positioned", mob |-> mob, margin |-> margin, was |-> mob] :
                     mob \in Mobjects, margin \in {<<>>} \cup {<<m>> : m \in 0..MaxMargin}}

\* d.clamp_to_frame(mobject, margin)
ClampToFrame ==
    /\ pc = "clamp"
    /\ clip.pc = "positioned"
    /\ clip' = [clip EXCEPT !.mob = clamp_to_frame(clip.mob, clip.margin), !.pc = "clamped",
                            !.was = clip.mob]
    /\ UNCHANGED <<input, pygments, pc, masked, links, dom, next, blocks, bridge, result,
                   calls, files>>

NextClamp == ClampToFrame

SpecClamp == InitClamp /\ [][NextClamp]_vars

\* the four edges of the mobject are inside the safe zone of margin m
InSafeZone(mob, m) ==
    /\ get_right(mob) <= FrameHalfW - m
    /\ get_left(mob) >= -FrameHalfW + m
    /\ get_top(mob) <= FrameHalfH - m
    /\ get_bottom(mob) >= -FrameHalfH + m

\* the mobject is no wider and no higher than the safe zone of margin m
FitsSafeZone(mob, m) ==
    /\ mob.width <= 2 * (FrameHalfW - m)
    /\ mob.height <= 2 * (FrameHalfH - m)

-----------------------------------------------------------------------------
(* explainclip/themes/loader.py: load_theme_file.  An object is the function  *)
(* from the names of its instance attributes to their values; the palette,    *)
(* the font stack and the size scale are cut down to two fields each, the     *)
(* top-level fields to two.  What yaml.safe_load returns is a record: none    *)
(* says that it returned None (an empty file), name is the sequence of the    *)
(* name given (empty: the key is missing), and each section is the set of     *)
(* keys it holds with present saying whether the section is there.            *)

\* the value the theme file gives to a key, the default of a field
Given(k) == <<"given", k>>
Default(k) == <<"default", k>>

\* the sizes in tenths of a point as the file writes them; int(v) of 28.7
GivenSize == 287
int(v) == v \div 10

\* the top-level numbers in hundredths; float(v) keeps the number
GivenNumber == 50
float(v) == v

\* dataclass defaults: ColorPalette(), FontStack(), SizeScale(), Theme()
ColorFields == {"bg", "brand"}
FontFields == {"en", "cn"}
SizeFields == {"body_lg", "caption"}
TopFields == {"card_radius", "safe_margin"}
DefaultSize == 22
DefaultNumber == 30

\* attributes every object has through its class without their being fields
ClassAttributes == {"__doc__"}

ThemeOf(name) ==
    [name |-> name,
     colors |-> [k \in ColorFields |-> Default(k)],
     fonts |-> [k \in FontFields |-> Default(k)],
     sizes |-> [k \in SizeFields |-> DefaultSize],
     top |-> [k \in TopFields |-> DefaultNumber]]

\* hasattr(obj, k)
hasattr(obj, k) == k \in DOMAIN obj \/ k \in ClassAttributes

\* setattr(obj, k, v)
setattr(obj, k, v) == [x \in DOMAIN obj \cup {k} |-> IF x = k THEN v ELSE obj[x]]

\* for k, v in data[section].items(): if hasattr(obj, k): setattr(obj, k, v)
\* (the keys of a mapping are distinct, so the order of the loop is immaterial)
\* (values is the mapping of the section: a function on its keys)
Override(obj, values) ==
    [x \in DOMAIN obj \cup {k \in DOMAIN values : hasattr(obj, k)} |->
        IF x \in DOMAIN values THEN values[x] ELSE obj[x]]

\* for key in (...): if key in data: setattr(theme, key, float(data[key]))
OverrideTop(top, keys) ==
    [x \in DOMAIN top |-> IF x \in keys THEN float(GivenNumber) ELSE top[x]]

\* the mapping of a section that holds the keys: strings, or sizes
Strings(keys) == [k \in keys |-> Given(k)]
Sizes(keys) == [k \in keys |-> int(GivenSize)]

\* the sections of data applied to the theme
ApplySections(theme, data) ==
    [theme EXCEPT
        !.colors = IF data.colors.present THEN Override(@, Strings(data.colors.keys)) ELSE @,
        !.fonts = IF data.fonts.present THEN Override(@, Strings(data.fonts.keys)) ELSE @,
        !.sizes = IF data.sizes.present THEN Override(@, Sizes(data.sizes.keys)) ELSE @,
        !.top = OverrideTop(@, data.top)]

\* data = yaml.safe_load(f) or {}
EmptyData ==
    [none |-> FALSE, name |-> <<>>,
     colors |-> [present |-> FALSE, keys |-> {}],
     fonts |-> [present |-> FALSE, keys |-> {}],
     sizes |-> [present |-> FALSE, keys |-> {}],
     top |-> {}]

OrEmpty(loaded) == IF loaded.none THEN EmptyData ELSE loaded

\* theme = Theme(name=data.get("name", path.stem)) and the overrides
ThemeFromData(data, stem) ==
    ApplySections(ThemeOf(IF data.name = <<>> THEN stem ELSE data.name[1]), data)

load_theme_file(loaded, stem) == ThemeFromData(OrEmpty(loaded), stem)

\* a section of the file: missing, or a mapping with some of the keys
Sections(keys) ==
    {[present |-> FALSE, keys |-> {}]} \cup [present : {TRUE}, keys : SUBSET keys]

\* the files: empty, or a mapping
ThemeFiles ==
    {[EmptyData EXCEPT !.none = TRUE]}
    \cup [none : {FALSE}, name : {<<>>, <<"custom">>},
          colors : Sections({"brand", "nonexistent_color", "__doc__"}),
          fonts : Sections({"en", "nonexistent_font"}),
          sizes : Sections({"body_lg"}),
          top : SUBSET {"safe_margin"}]

InitTheme ==
    /\ input = <<>>
    /\ pygments = FALSE
    /\ pc = "theme"
    /\ masked = <<>>
    /\ links = <<>>
    /\ dom = <<>>
    /\ next = 1
    /\ blocks = <<>>
    /\ bridge = NoBridge
    /\ result = <<>>
    /\ calls = <<>>
    /\ files = {}
    /\ clip \in {[pc |-> "file", stem |-> "my-brand", loaded |-> f,
                  theme |-> ThemeOf("default")] : f \in ThemeFiles}

\* t = load_theme_file(theme_file)
LoadThemeFile ==
    /\ pc = "theme"
    /\ clip.pc = "file"
    /\ clip' = [clip EXCEPT !.theme = load_theme_file(clip.loaded, clip.stem),
                            !.pc = "loaded"]
    /\ UNCHANGED <<input, pygments, pc, masked, links, dom, next, blocks, bridge, result,
                   calls, files>>

NextTheme == LoadThemeFile

SpecTheme == InitTheme /\ [][NextTheme]_vars

\* the object has the fields and nothing else; the fields not among the keys
\* have the value they have in the default object
OnlyNamedChanged(obj, default, keys) ==
    /\ DOMAIN obj = DOMAIN default
    /\ \A k \in DOMAIN default \ keys : obj[k] = default[k]

\* C19: every colour, font, size and top-level field the file does not name
\* keeps its default, a key that is no field adds no attribute, and the name
\* is the file stem when the file gives none, an empty file included.
C19_OnlyNamedOverridden ==
    clip.pc = "loaded" =>
        /\ OnlyNamedChanged(clip.theme.colors, ThemeOf("").colors, OrEmpty(clip.loaded).colors.keys)
        /\ OnlyNamedChanged(clip.theme.fonts, ThemeOf("").fonts, OrEmpty(clip.loaded).fonts.keys)
        /\ OnlyNamedChanged(clip.theme.sizes, ThemeOf("").sizes, OrEmpty(clip.loaded).sizes.keys)
        /\ OnlyNamedChanged(clip.theme.top, ThemeOf("").top, OrEmpty(clip.loaded).top)
        /\ OrEmpty(clip.loaded).name = <<>> => clip.theme.name = clip.stem

-----------------------------------------------------------------------------
(* explainclip/cli.py: explainclip init.  The file system below the working   *)
(* directory is a set of entries [path, kind, content]; a path is the         *)
(* sequence of its components.                                                *)

Dir(path) == [path |-> path, kind |-> "dir", content |-> <<>>]
File(path, content) == [path |-> path, kind |-> "file", content |-> content]

\* a faulty test that never finds the project; C20 must fail on it
exists_Never(fs, path) == FALSE

\* Path.exists()
exists(fs, path) == \E e \in fs : e.path = path

\* the proper, non-empty prefixes of a path
Parents(path) == {SubSeq(path, 1, n) : n \in 1..(Len(path) - 1)}

\* some parent of the path is a file: mkdir raises NotADirectoryError
UnderFile(fs, path) == \E e \in fs : e.kind = "file" /\ e.path \in Parents(path)

\* Path.mkdir(): the directory is added (an entry that is there is kept)
mkdir(fs, path) == IF exists(fs, path) THEN fs ELSE fs \cup {Dir(path)}

\* Path.mkdir(parents=True): the missing parents are created as well
mkdir_parents(fs, path) ==
    fs \cup {Dir(q) : q \in {q \in Parents(path) \cup {path} : ~exists(fs, q)}}

\* Path.write_text(content): the file is created or replaced
write_text(fs, path, content) ==
    {e \in fs : e.path # path} \cup {File(path, content)}

\* what the three templates hold
ConfigContent(name, theme) == <<"config", name, theme>>
ExampleScene == <<"example">>
ThemeTemplate == <<"theme_template">>

\* the scaffold, step by step
WithDirs(fs, project) ==
    mkdir(mkdir(mkdir(mkdir_parents(fs, project), project \o <<"scenes">>),
                project \o <<"media">>),
          project \o <<"assets">>)

WithFiles(fs, project, theme) ==
    write_text(write_text(write_text(fs, project \o <<"explainclip.yaml">>,
                                     ConfigContent(project, theme)),
                          project \o <<"scenes", "intro.py">>, ExampleScene),
               project \o <<"theme.yaml">>, ThemeTemplate)

\* how the command ends: the file system, the exit status, what it printed
Ended(fs, status, output) == [fs |-> fs, exit |-> status, output |-> output]

\* init(name, theme); an exception that leaves the command ends it with
\* status 1 and a traceback
init(fs, name, theme) ==
    IF exists(fs, name) THEN Ended(fs, 1, "already exists")
    ELSE IF UnderFile(fs, name) THEN Ended(fs, 1, "NotADirectoryError")
    ELSE Ended(WithFiles(WithDirs(fs, name), name, theme), 0, "Created project")

\* what is at one place before the command: nothing, a file, a directory, or
\* a directory that holds a theme.yaml of its own
At(path) ==
    {{}, {File(path, <<"old">>)}, {Dir(path)},
     {Dir(path), File(path \o <<"theme.yaml">>, <<"old">>)}}

\* the file systems: p and a at the top, a/p when a is a directory
FileSystems ==
    {top \cup sub : top \in At(<<"p">>), sub \in At(<<"a">>)}
    \cup {top \cup {Dir(<<"a">>)} \cup sub : top \in At(<<"p">>), sub \in At(<<"a", "p">>)}

ProjectNames == {<<"p">>, <<"a">>, <<"a", "p">>}
ThemeNames == {"default", "ocean", "warm"}

InitCli ==
    /\ input = <<>>
    /\ pygments = FALSE
    /\ pc = "cli"
    /\ masked = <<>>
    /\ links = <<>>
    /\ dom = <<>>
    /\ next = 1
    /\ blocks = <<>>
    /\ bridge = NoBridge
    /\ result = <<>>
    /\ calls = <<>>
    /\ files = {}
    /\ clip \in {[pc |-> "shell", fs |-> fs, before |-> fs, name |-> <<>>, exit |-> 0,
                  output |-> ""] : fs \in FileSystems}

\* the command has ended in r
Exited(name, r) ==
    clip' = [clip EXCEPT !.pc = "exited", !.name = name, !.fs = r.fs, !.exit = r.exit,
                         !.output = r.output]

\* explainclip init NAME --theme THEME
RunInit ==
    /\ pc = "cli"
    /\ clip.pc = "shell"
    /\ \E name \in ProjectNames, theme \in ThemeNames : Exited(name, init(clip.fs, name, theme))
    /\ UNCHANGED <<input, pygments, pc, masked, links, dom, next, blocks, bridge, result,
                   calls, files>>

NextCli == RunInit

SpecCli == InitCli /\ [][NextCli]_vars

\* something is at the path; some parent of the path is a file
Present(fs, path) == path \in {e.path : e \in fs}
BelowFile(fs, path) ==
    \E n \in 1..(Len(path) - 1) : File(SubSeq(path, 1, n), <<"old">>) \in fs

\* the project is there: its directory, the three directories and three files
Scaffolded(fs, project) ==
    /\ {Dir(project), Dir(project \o <<"scenes">>), Dir(project \o <<"media">>),
        Dir(project \o <<"assets">>)} \subseteq fs
    /\ \A f \in {<<"scenes", "intro.py">>, <<"explainclip.yaml">>, <<"theme.yaml">>} :
          \E e \in fs : e.path = project \o f /\ e.kind = "file"

\* on a name that exists: status 1, the report, nothing created or modified
RefusesExisting ==
    clip.pc = "exited" /\ Present(clip.before, clip.name)
        => clip.exit = 1 /\ clip.output = "already exists" /\ clip.fs = clip.before

\* C20 as stated: on a name that exists init exits with status 1, reports it
\* and leaves the file system as it was; on a name that does not exist it
\* creates the project directory and its scaffold.
C20_InitRefusesOrCreates ==
    /\ RefusesExisting
    /\ clip.pc = "exited" /\ ~Present(clip.before, clip.name)
          => clip.exit = 0 /\ Scaffolded(clip.fs, clip.name)

\* C20 amended: the scaffold is created on a name that does not exist and
\* none of whose parents is a file; what was there before is kept.
C20_InitRefusesOrCreatesUnderDirs ==
    /\ RefusesExisting
    /\ clip.pc = "exited" /\ ~Present(clip.before, clip.name)
                          /\ ~BelowFile(clip.before, clip.name)
          => /\ clip.exit = 0 /\ clip.output = "Created project"
             /\ Scaffolded(clip.fs, clip.name)
             /\ clip.before \subseteq clip.fs

\* init was refused on a directory that holds a theme.yaml of its own
C20_Witness ==
    /\ clip.pc = "exited" /\ clip.name = <<"p">>
    /\ File(<<"p", "theme.yaml">>, <<"old">>) \in clip.before
    /\ clip.exit = 1

\* init created a project below a directory it had to create
C20_WitnessCreated ==
    /\ clip.pc = "exited" /\ clip.name = <<"a", "p">>
    /\ ~Present(clip.before, <<"a">>)
    /\ clip.exit = 0 /\ Scaffolded(clip.fs, clip.name)

-----------------------------------------------------------------------------
(* fix_markdown_links on texts of many links, one link per paragraph          *)

MaxLinks == 11      \* paragraphs (one link each) of a text of many links

\* the display text and the target of the link of paragraph k (from 0)
LinkTextOf(k) == <<"t">> \o ToDecimal(k)
LinkUrlOf(k) == <<"h","t","t","p",":","/","/","x","/">> \o ToDecimal(k)

\* n paragraphs: Markdown links in the first m of them (all, when m > n), bare
\* URLs in the others
ManyLinks(n, m) ==
    JoinSegs([k \in 1..n |-> IF k <= m THEN MdLink(LinkTextOf(k - 1), LinkUrlOf(k - 1))
                             ELSE LinkUrlOf(k - 1)])

ManyInputs == {ManyLinks(n, m) : n \in 1..MaxLinks, m \in 0..MaxLinks}

InitMany ==
    /\ input \in ManyInputs
    /\ pygments = FALSE
    /\ pc = "start"
    /\ masked = <<>>
    /\ links = <<>>
    /\ dom = <<>>
    /\ next = 1
    /\ blocks = <<>>
    /\ bridge = NoBridge
    /\ result = <<>>
    /\ calls = <<>>
    /\ files = {}
    /\ clip = <<>>

SpecMany == InitMany /\ [][Next]_vars

\* placeholder occurs in content at position p as a whole token: no digit
\* follows it, and "URL" does not precede a token that starts with "LINK"
TokenAt(content, p, placeholder) ==
    /\ IsPrefixAt(content, p, placeholder)
    /\ LET q == p + Len(placeholder)
       IN  q <= Len(content) => content[q] \notin {Digits[d] : d \in 1..10}
    /\ placeholder[1] = "L" => ~(p > 3 /\ SubSeq(content, p - 3, p - 1) = UrlWord)

\* the recorded placeholders whose token occurs in content
TokensOf(content, table) ==
    {k \in 1..Len(table) :
        \E p \in 1..Len(content) : TokenAt(content, p, table[k].placeholder)}

\* C21: a postprocessing step resolves every run whose content holds the token
\* of exactly one recorded placeholder to the display text and the target
\* recorded for that placeholder, whatever the number of placeholders.
C21_TokenResolvesToItsLink ==
    [][Postprocess =>
          \A i \in 1..Len(blocks) : \A j \in 1..Len(blocks[i].rich_text) :
              \A k \in 1..Len(links) :
                  TokensOf(blocks[i].rich_text[j].content, links) = {k}
                      => /\ blocks'[i].rich_text[j].content = links[k].text
                         /\ blocks'[i].rich_text[j].hasLink
                         /\ blocks'[i].rich_text[j].url = links[k].url]_vars

-----------------------------------------------------------------------------
(* preprocess_markdown_links on texts of a few lines with bare URLs           *)

MaxLines == 2       \* lines of a text drawn from the line catalogue

LineGo == <<"g","o"," ","h","t","t","p",":","/","/","y">>
LineClose == <<"a","]","(","b",")"," ","c">>
LineEmptyLink == <<"[","]","(","h","t","t","p",":","/","/","y",")">>
LineHello == <<"h","e","l","l","o">>
LineMdLink == <<"[","a","]","(","h","t","t","p",":","/","/","x",")">>
LineTwoUrls == <<"h","t","t","p",":","/","/","y"," ","h","t","t","p",":","/","/","z">>
LineOpenUrl == <<"x"," ","]","(","h","t","t","p",":","/","/","y">>

LineCatalogue ==
    {LineGo, LineClose, LineEmptyLink, LineHello, LineMdLink, LineTwoUrls, LineOpenUrl,
     Fence}

LineInputs == {JoinLines(ls) : ls \in UNION {[1..n -> LineCatalogue] : n \in 1..MaxLines}}

InitBare ==
    /\ input \in LineInputs
    /\ pygments = FALSE
    /\ pc = "start"
    /\ masked = <<>>
    /\ links = <<>>
    /\ dom = <<>>
    /\ next = 1
    /\ blocks = <<>>
    /\ bridge = NoBridge
    /\ result = <<>>
    /\ calls = <<>>
    /\ files = {}
    /\ clip = <<>>

NextBare == Preprocess

SpecBare == InitBare /\ [][NextBare]_vars

\* the bare-URL rule as stated: a URL of the line that "](" precedes in the
\* line stays and is not recorded, any other is replaced by a placeholder
\* recorded with the URL as its text
StatedBareUrls(line, ls0) ==
    LET RECURSIVE go(_, _, _)
        RECURSIVE step(_, _, _, _, _)
        go(from, out, ls) ==
            step(from, out, ls,
                 MinOrZero({i \in from..Len(line) : UrlMatchEnd(line, i) # 0}),
                 MinOrZero({UrlMatchEnd(line, i) : i \in
                     {MinOrZero({k \in from..Len(line) : UrlMatchEnd(line, k) # 0})} \ {0}}))
        step(from, out, ls, i, e) ==
            IF i = 0 THEN [text |-> out \o SubSeq(line, from, Len(line)), links |-> ls]
            ELSE IF i > 2 /\ SubSeq(line, i - 2, i - 1) = <<"]", "(">>
                 THEN go(e + 1, out \o SubSeq(line, from, e), ls)
            ELSE go(e + 1, out \o SubSeq(line, from, i - 1) \o UrlPlaceholder(Len(ls)),
                    Append(ls, [placeholder |-> UrlPlaceholder(Len(ls)),
                                text |-> SubSeq(line, i, e),
                                url |-> SubSeq(line, i, e)]))
    IN  go(1, <<>>, ls0)

\* the stated rule on every line outside a fenced code block
StatedMask(lines, ls0) ==
    LET RECURSIVE go(_, _, _, _)
        RECURSIVE stated_line(_, _, _, _)
        go(i, in_code_block, out, ls) ==
            IF i > Len(lines) THEN [text |-> JoinLines(out), links |-> ls]
            ELSE IF IsFenceLine(lines[i])
                 THEN go(i + 1, ~in_code_block, Append(out, lines[i]), ls)
            ELSE IF in_code_block
                 THEN go(i + 1, in_code_block, Append(out, lines[i]), ls)
            ELSE stated_line(i, in_code_block, out, StatedBareUrls(lines[i], ls))
        stated_line(i, in_code_block, out, r) ==
            go(i + 1, in_code_block, Append(out, r.text), r.links)
    IN  go(1, FALSE, <<>>, ls0)

StatedAfterFirst(first) == StatedMask(SplitLines(first.text), first.links)

\* C22: the masked text and the table preprocessing returns are those of the
\* stated bare-URL rule applied to the text the first pass leaves: a bare URL
\* with "](" right before it in its line is neither replaced nor recorded, and
\* every other bare URL outside a fence is replaced and recorded with itself
\* as its text.
C22_BareUrlRule ==
    pc = "masked" =>
        [text |-> masked, links |-> links] = StatedAfterFirst(ReplaceMarkdownLinks(input))

-----------------------------------------------------------------------------
(* Order of the placeholder table (Spec)                                      *)

\* the position of the token of placeholder in text, 0 if it is not there
TokenPosition(text, placeholder) ==
    MinOrZero({p \in 1..Len(text) : TokenAt(text, p, placeholder)})

\* entry k of the table was recorded for a bare URL
IsUrlEntry(table, k) == table[k].placeholder[1] = "U"

\* entries i < j of the table stand in the masked text in that order
InTextOrder(i, j) ==
    /\ TokenPosition(masked, links[i].placeholder) # 0
    /\ TokenPosition(masked, links[i].placeholder)
           < TokenPosition(masked, links[j].placeholder)

\* C23 as stated: the table is in the left-to-right order of the occurrences,
\* Markdown links and bare URLs together.
C23_TableInTextOrder ==
    pc = "masked" => \A i, j \in 1..Len(links) : i < j => InTextOrder(i, j)

\* C23: entry k of the table carries index k - 1; the entries of the Markdown
\* links come first, in the left-to-right order of the links, and the entries
\* of the bare URLs follow, in the left-to-right order of the URLs.
C23_TableInPassOrder ==
    pc = "masked" =>
        /\ \A k \in 1..Len(links) :
              links[k].placeholder \in {LinkPlaceholder(k - 1), UrlPlaceholder(k - 1)}
        /\ \A i, j \in 1..Len(links) :
              i < j => /\ IsUrlEntry(links, i) => IsUrlEntry(links, j)
                       /\ IsUrlEntry(links, i) = IsUrlEntry(links, j) => InTextOrder(i, j)

\* a bare URL stands before a Markdown link and is recorded after it
C23_Witness ==
    /\ pc = "masked"
    /\ input = SegBareUrl \o BlankLine \o SegMdLink
    /\ Len(links) = 2
    /\ links[1].placeholder = LinkPlaceholder(0)
    /\ links[2].placeholder = UrlPlaceholder(1)
    /\ TokenPosition(masked, links[2].placeholder)
           < TokenPosition(masked, links[1].placeholder)

-----------------------------------------------------------------------------
(* Uniqueness of the placeholders (Spec)                                      *)

\* the text of two occurrences of the segment s
Repeated(s) == s \o BlankLine \o s

\* C24: the tokens recorded by one preprocessing call are pairwise distinct,
\* and a text that repeats a segment records every link and URL of the segment
\* twice: the second occurrence gets a placeholder of its own.
C24_TokensDistinct ==
    pc = "masked" =>
        /\ \A i, j \in 1..Len(links) :
              i # j => links[i].placeholder # links[j].placeholder
        /\ \A s \in Catalogue :
              input = Repeated(s) =>
                  /\ Len(links) = 2 * Len(preprocess_markdown_links(s).links)
                  /\ \A k \in 1..Len(links) :
                        \E m \in 1..Len(preprocess_markdown_links(s).links) :
                            /\ links[k].text = preprocess_markdown_links(s).links[m].text
                            /\ links[k].url = preprocess_markdown_links(s).links[m].url

\* the same bare URL twice: two entries with the same target and two tokens
C24_Witness ==
    /\ pc = "masked"
    /\ input = Repeated(SegBareUrl)
    /\ Len(links) = 2
    /\ links[1].url = links[2].url
    /\ links[1].placeholder # links[2].placeholder

\* the same Markdown link twice
C24_WitnessLink ==
    /\ pc = "masked"
    /\ input = Repeated(SegMdLink)
    /\ Len(links) = 2
    /\ links[1].url = links[2].url
    /\ links[1].text = links[2].text
    /\ links[1].placeholder # links[2].placeholder

-----------------------------------------------------------------------------
(* debug_markdown_conversion: the URLs found in the raw input                 *)

MaxUrlSegs == 2     \* space-separated pieces of a text given to the debug report

\* the characters  [^\s)"]  may not be
DebugUrlStop == Whitespace \cup {")", "\""}

\* re.findall(pattern, text) for a pattern  https?://[^...]+  whose excluded
\* characters are stop: the matches from left to right, none overlapping
FindAllUrls(text, stop) ==
    LET RECURSIVE go(_, _)
        RECURSIVE step(_, _, _)
        go(from, out) ==
            step(from, out,
                 MinOrZero({i \in from..Len(text) :
                               UrlBody(text, AfterScheme(text, i), stop) # 0}))
        step(from, out, i) ==
            IF i = 0 THEN out
            ELSE go(UrlBody(text, AfterScheme(text, i), stop) + 1,
                    Append(out, SubSeq(text, i, UrlBody(text, AfterScheme(text, i), stop))))
    IN  go(1, <<>>)

PieceUrl == UrlY
PieceBracket == UrlY \o <<"]">>
PieceQuoted == <<"'">> \o UrlY \o <<"'">>
PieceBraces == <<"{">> \o UrlY \o <<"}">>
PieceParens == <<"(">> \o UrlY \o <<")">>
PieceDoubleQuoted == <<"\"">> \o UrlYZ \o <<"\"">>
PieceSentence == <<"s","e","e"," ">> \o UrlYZ \o <<".">>
PiecePlain == <<"p","l","a","i","n">>
PieceMdLink == MdLink(<<"T">>, UrlX)
PieceScheme == <<"h","t","t","p",":","/","/">>

PieceCatalogue ==
    {PieceUrl, PieceBracket, PieceQuoted, PieceBraces, PieceParens, PieceDoubleQuoted,
     PieceSentence, PiecePlain, PieceMdLink, PieceScheme}

JoinPieces(ps) ==
    LET RECURSIVE go(_)
        go(i) == IF i = Len(ps) THEN ps[i] ELSE ps[i] \o <<" ">> \o go(i + 1)
    IN  go(1)

DebugInputs ==
    {JoinPieces(ps) : ps \in UNION {[1..n -> PieceCatalogue] : n \in 1..MaxUrlSegs}}

InitDebugUrls ==
    /\ input \in DebugInputs
    /\ pygments = FALSE
    /\ pc = "debug"
    /\ masked = <<>>
    /\ links = <<>>
    /\ dom = <<>>
    /\ next = 1
    /\ blocks = <<>>
    /\ bridge = NoBridge
    /\ result = <<>>
    /\ calls = <<>>
    /\ files = {}
    /\ clip = <<>>

\* urls_in_content = re.findall(url_pattern, md_content_str)
FindUrlsInContent ==
    /\ pc = "debug"
    /\ result' = [urls_found_in_markdown |-> FindAllUrls(input, DebugUrlStop)]
    /\ pc' = "reported"
    /\ UNCHANGED <<input, pygments, masked, links, dom, next, blocks, bridge, calls,
                   files, clip>>

NextDebugUrls == FindUrlsInContent

SpecDebugUrls == InitDebugUrls /\ [][NextDebugUrls]_vars

\* C25: the URLs the debug report finds in the raw input are the strings the
\* bare-URL pattern of the preprocessing matches in that input.
C25_SameUrlRule ==
    pc = "reported" => result.urls_found_in_markdown = FindAllUrls(input, UrlStop)

-----------------------------------------------------------------------------
(* _convert_with_bs4 on documents of tables (SpecShape)                       *)

\* a table without rows
NodeTableNoRows == Elem("table", <<>>)
\* a table whose header cells stand in the second row only
NodeTableLateHeader ==
    Elem("table",
         <<Elem("tr", <<Elem("td", <<Str(<<"x">>)>>), Elem("td", <<Str(<<"y">>)>>)>>),
           Elem("tr", <<Elem("th", <<Str(<<"A">>)>>), Elem("th", <<Str(<<"B">>)>>)>>)>>)
\* a table with a table inside the only cell of its first row
NodeTableNested ==
    Elem("table",
         <<Elem("tr",
                <<Elem("td",
                       <<Elem("table",
                              <<Elem("tr", <<Elem("th", <<Str(<<"u">>)>>),
                                             Elem("td", <<Str(<<"v">>)>>)>>)>>)>>)>>)>>)

ShapeCatalogue ==
    {NodeP, NodeTable, NodeTableTd, NodeTableEmpty, NodeTableNoRows, NodeTableLateHeader,
     NodeTableNested}

ShapeDocuments == UNION {[1..n -> ShapeCatalogue] : n \in 1..MaxNodes}

InitShape ==
    /\ input = <<>>
    /\ pygments = FALSE
    /\ pc = "classify"
    /\ masked = <<>>
    /\ links = TwoLinks
    /\ dom \in ShapeDocuments
    /\ next = 1
    /\ blocks = <<>>
    /\ bridge = NoBridge
    /\ result = <<>>
    /\ calls = <<>>
    /\ files = {}
    /\ clip = <<>>

SpecShape == InitShape /\ [][NextDom]_vars

\* the cells of a row: its own th and td children
OwnCells(row) == SelectSeq(row.kids, LAMBDA d : d.name \in {"th", "td"})

\* the table block expected of a table whose first row is row: none without a
\* cell, else one whose width is the number of cells of the row and whose
\* header flag says that one of these cells is a th
ShapeOfFirstRow(bs, cells) ==
    IF cells = <<>> THEN bs = <<>>
    ELSE /\ Len(bs) = 1
         /\ bs[1].type = "table"
         /\ bs[1].table_width = Len(cells)
         /\ bs[1].has_column_header = (\E c \in 1..Len(cells) : cells[c].name = "th")

ShapeOfRows(bs, rows) ==
    IF rows = <<>> THEN bs = <<>> ELSE ShapeOfFirstRow(bs, OwnCells(rows[1]))

\* C26: the step that classifies a table node appends no block for a table
\* without rows or without cells in its first row, and otherwise one table
\* block whose table_width is the number of cells of the first row and whose
\* has_column_header is true iff one of these cells is a th.
C26_TableWidthAndHeader ==
    [][(ClassifyStep /\ dom[next].name = "table") =>
          /\ Len(blocks') >= Len(blocks)
          /\ ShapeOfRows(SubSeq(blocks', Len(blocks) + 1, Len(blocks')),
                         find_all(dom[next], {"tr"}))]_vars

-----------------------------------------------------------------------------
(* process_rich_text_element on drawn nodes (SpecInline)                      *)

MaxKids == 3        \* children of a node given to the inline formatter

KidText == Str(<<"a", " ">>)
KidBlank == Str(<<" ", "\n">>)
KidStrong == Elem("strong", <<Str(<<"b">>)>>)
KidBreak == Elem("br", <<>>)
KidLink == ElemAttr("a", UrlX, <<Str(<<"c">>)>>)
KidImageLink == ElemAttr("a", UrlY, <<ElemAttr("img", UrlYZ, <<>>)>>)
KidEmLink == Elem("em", <<ElemAttr("a", UrlY, <<Str(<<"d">>)>>)>>)

KidCatalogue == {KidText, KidBlank, KidStrong, KidBreak, KidLink, KidImageLink, KidEmLink}

KidLists == UNION {[1..n -> KidCatalogue] : n \in 0..MaxKids}

\* a paragraph, or a link, with the children drawn
InlineElements ==
    {Elem("p", kids) : kids \in KidLists} \cup {ElemAttr("a", UrlOrg, kids) : kids \in KidLists}

InitInline ==
    /\ input = <<>>
    /\ pygments = FALSE
    /\ pc = "format"
    /\ masked = <<>>
    /\ links = <<>>
    /\ dom \in {<<e>> : e \in InlineElements}
    /\ next = 1
    /\ blocks = <<>>
    /\ bridge = NoBridge
    /\ result = <<>>
    /\ calls = <<>>
    /\ files = {}
    /\ clip = <<>>

\* rich_text = process_rich_text_element(element)
FormatInline ==
    /\ pc = "format"
    /\ result' = process_rich_text_element(dom[1])
    /\ pc' = "formatted"
    /\ UNCHANGED <<input, pygments, masked, links, dom, next, blocks, bridge, calls,
                   files, clip>>

NextInline == FormatInline

SpecInline == InitInline /\ [][NextInline]_vars

IsLinkNode(node) == node.name = "a" /\ node.hasAttr

\* the children that contribute a run: strings that are not all whitespace
\* and elements with some text below them
Contributing(node) ==
    SelectSeq(node.kids,
              LAMBDA c : IF IsString(c) THEN \E i \in 1..Len(c.text) : c.text[i] \notin Whitespace
                         ELSE get_text(c) # <<>>)

\* the runs stand in the order of the contributing children, one run each
\* with the text of its child
RunPerChild(runs, kids) ==
    /\ Len(runs) = Len(kids)
    /\ \A k \in 1..Len(kids) :
          runs[k].content = (IF IsString(kids[k]) THEN kids[k].text ELSE get_text(kids[k]))

\* C27 as stated: a node that is a link yields exactly one run with its link
\* and flattened text; any other node yields one run per contributing child,
\* in the order of the children.
C27_RunsInChildOrder ==
    pc = "formatted" =>
        IF IsLinkNode(dom[1])
        THEN result = <<LinkRun(get_text(dom[1]), dom[1].attr)>>
        ELSE RunPerChild(result, Contributing(dom[1]))

\* C27: a node that is a link yields one run with its link and flattened text
\* when that text is not empty and no run when it is; any other node yields
\* one run per contributing child, in the order of the children, and a string
\* child of whitespace only contributes none.
C27_RunsInChildOrderOrNone ==
    pc = "formatted" =>
        IF IsLinkNode(dom[1])
        THEN result = (IF get_text(dom[1]) # <<>>
                       THEN <<LinkRun(get_text(dom[1]), dom[1].attr)>> ELSE <<>>)
        ELSE RunPerChild(result, Contributing(dom[1]))

\* text, blank, bold: two runs, none merged, in this order
C27_Witness ==
    /\ pc = "formatted"
    /\ dom[1] = Elem("p", <<KidText, KidBlank, KidStrong>>)
    /\ Len(result) = 2
    /\ result[1] = PlainRun(<<"a", " ">>)
    /\ result[2].content = <<"b">>

\* a link around an image only: no run
C27_WitnessEmptyLink ==
    /\ pc = "formatted"
    /\ dom[1] = ElemAttr("a", UrlOrg, <<KidImageLink>>)
    /\ result = <<>>

\* a link with children: one run of the flattened text
C27_WitnessLink ==
    /\ pc = "formatted"
    /\ dom[1] = ElemAttr("a", UrlOrg, <<KidText, KidStrong>>)
    /\ result = <<LinkRun(<<"a", " ", "b">>, UrlOrg)>>

-----------------------------------------------------------------------------
(* postprocess_notion_blocks on the blocks of drawn documents (SpecFrame)     *)

\* a paragraph with a placeholder in bold and one in its plain text
NodeBoldToken ==
    Elem("p", <<Elem("strong", <<Str(<<"[">> \o LinkPlaceholder(0) \o <<"]">>)>>),
                Str(<<" ", "x", " ">> \o UrlPlaceholder(1)),
                Elem("em", <<Str(<<"y">>)>>)>>)
\* a code block with a placeholder in its text
NodePreToken == Elem("pre", <<Elem("code", <<Str(UrlPlaceholder(1))>>)>>)
\* a list with a placeholder in its second item
NodeUlToken ==
    Elem("ul", <<Elem("li", <<Str(<<"x">>)>>),
                 Elem("li", <<Str(<<"[">> \o LinkPlaceholder(0) \o <<"]">>)>>)>>)

FrameCatalogue ==
    {NodeH1, NodeP, NodeRich, NodeTable, NodeTableTd, NodeBoldToken, NodePreToken,
     NodeUlToken}

FrameDocuments == UNION {[1..n -> FrameCatalogue] : n \in 1..MaxNodes}

InitFrame ==
    /\ input = <<>>
    /\ pygments = FALSE
    /\ pc = "classify"
    /\ masked = <<>>
    /\ links = TwoLinks
    /\ dom \in FrameDocuments
    /\ next = 1
    /\ blocks = <<>>
    /\ bridge = NoBridge
    /\ result = <<>>
    /\ calls = <<>>
    /\ files = {}
    /\ clip = <<>>

SpecFrame == InitFrame /\ [][NextDom]_vars

\* run before and run after: the annotations are kept, and a run without a
\* token of the table is kept whole
SameRun(before, after, table) ==
    /\ after.annotations = before.annotations
    /\ TokensOf(before.content, table) = {} => after = before

SameRuns(before, after, table) ==
    /\ Len(after) = Len(before)
    /\ \A k \in 1..Len(before) : SameRun(before[k], after[k], table)

\* block before and block after: everything but the runs is kept, and the
\* runs, the rows and the cells are as many as before
SameBlock(before, after, table) ==
    /\ [after EXCEPT !.rich_text = <<>>, !.children = <<>>]
           = [before EXCEPT !.rich_text = <<>>, !.children = <<>>]
    /\ SameRuns(before.rich_text, after.rich_text, table)
    /\ Len(after.children) = Len(before.children)
    /\ \A r \in 1..Len(before.children) :
          /\ Len(after.children[r]) = Len(before.children[r])
          /\ \A c \in 1..Len(before.children[r]) :
                SameRuns(before.children[r][c], after.children[r][c], table)

\* C28: a postprocessing step keeps the number, order and types of the blocks,
\* the number and order of the rows, cells and runs, the annotations of every
\* run, and every run that holds no placeholder token.
C28_PostprocessFrame ==
    [][Postprocess =>
          /\ Len(blocks') = Len(blocks)
          /\ \A i \in 1..Len(blocks) : SameBlock(blocks[i], blocks'[i], links)]_vars

\* a bold run with a token was resolved and is still bold, next to a table
C28_Witness ==
    /\ pc = "done"
    /\ \E i \in 1..Len(dom) : dom[i] = NodeBoldToken
    /\ \E i \in 1..Len(blocks) :
          /\ blocks[i].type = "paragraph"
          /\ Len(blocks[i].rich_text) = 3
          /\ blocks[i].rich_text[1] = [LinkRun(<<"T">>, UrlX) EXCEPT !.annotations = {"bold"}]
          /\ blocks[i].rich_text[3].annotations = {"italic"}
    /\ \E i \in 1..Len(blocks) : blocks[i].type = "table"

-----------------------------------------------------------------------------
(* preprocess_markdown_links as a masking (SpecMask)                          *)

\* a Markdown link whose text is wrapped over two lines
SegWrapped ==
    <<"s","e","e"," ","[","a","\n","b","]","(","h","t","t","p",":","/","/","x",")"," ","x">>

MaskCatalogue ==
    {SegPlain, SegBracket, SegMdLink, SegBareUrl, SegBareUrl2, SegMixed, SegList,
     SegFenceUrl, SegTable, SegWrapped}

MaskInputs == {JoinSegs(ss) : ss \in UNION {[1..n -> MaskCatalogue] : n \in 1..MaxSegs}}

InitMask ==
    /\ input \in MaskInputs
    /\ pygments = FALSE
    /\ pc = "start"
    /\ masked = <<>>
    /\ links = <<>>
    /\ dom = <<>>
    /\ next = 1
    /\ blocks = <<>>
    /\ bridge = NoBridge
    /\ result = <<>>
    /\ calls = <<>>
    /\ files = {}
    /\ clip = <<>>

SpecMask == InitMask /\ [][NextBare]_vars

\* what stands in the masked text for an entry, and what stood in the input
MaskOf(entry) ==
    IF entry.placeholder[1] = "U" THEN entry.placeholder
    ELSE <<"[">> \o entry.placeholder \o <<"]">>

SourceOf(entry) ==
    IF entry.placeholder[1] = "U" THEN entry.url ELSE MdLink(entry.text, entry.url)

\* the position of the mask of entry in text, 0 if it is not there
MaskPosition(text, entry) ==
    IF entry.placeholder[1] = "U" THEN TokenPosition(text, entry.placeholder)
    ELSE MinOrZero({p \in 1..Len(text) : IsPrefixAt(text, p, MaskOf(entry))})

\* text with old at position p replaced by new (p = 0: text)
ReplaceAt(text, p, old, new) ==
    IF p = 0 THEN text
    ELSE SubSeq(text, 1, p - 1) \o new \o SubSeq(text, p + Len(old), Len(text))

\* text with the masks of the entries k.. of table replaced by their sources
RECURSIVE Unmask(_, _, _)
Unmask(text, table, k) ==
    IF k > Len(table) THEN text
    ELSE Unmask(ReplaceAt(text, MaskPosition(text, table[k]), MaskOf(table[k]),
                          SourceOf(table[k])),
                table, k + 1)

\* the number of line breaks in s
LineBreaks(s) == Cardinality({p \in 1..Len(s) : s[p] = "\n"})

\* the line breaks inside the recorded links
RECURSIVE LineBreaksIn(_, _)
LineBreaksIn(table, k) ==
    IF k > Len(table) THEN 0
    ELSE LineBreaks(SourceOf(table[k])) + LineBreaksIn(table, k + 1)

\* every recorded token stands exactly once in the masked text, every token of
\* the masked text is recorded, and putting the sources back gives the input
OneToOne ==
    /\ \A k \in 1..Len(links) :
          Cardinality({p \in 1..Len(masked) : TokenAt(masked, p, links[k].placeholder)}) = 1
    /\ \A p \in 1..Len(masked) :
          IsPrefixAt(masked, p, LinkWord) =>
              \E k \in 1..Len(links) :
                  \/ TokenAt(masked, p, links[k].placeholder)
                  \/ p > 3 /\ TokenAt(masked, p - 3, links[k].placeholder)
    /\ Unmask(masked, links, 1) = input

C29_WitnessWrapped ==
    /\ pc = "masked"
    /\ input = SegWrapped
    /\ Len(links) = 1
    /\ LineBreaks(masked) = 0

-----------------------------------------------------------------------------
(* Termination of clean_markdown_to_notion_blocks (SpecCallsFair)             *)

\* the values the built-in parser returns for the inputs of the callers
BuiltInResults == {convert_with_bs4(md, pyg) : md \in CallInputs, pyg \in BOOLEAN}

\* BuiltIn(k) with the value it returns left open: a step of NextCalls is a
\* step of BuiltInReturns(k) iff it is a step of BuiltIn(k), and the two are
\* enabled in the same states.  ENABLED is evaluated on this form, which does
\* not run the parser.
BuiltInReturns(k) ==
    /\ calls[k].pc = "bs4"
    /\ \E v \in BuiltInResults : Set(k, [calls[k] EXCEPT !.v = v, !.pc = "v_end"])
    /\ UNCHANGED <<files, Installation>>

\* a step of some call
Progress ==
    \/ \E k \in DOMAIN calls : Enter(k)
    \/ \E k \in DOMAIN calls : CleanStart(k)
    \/ \E k \in DOMAIN calls : CleanCreate(k)
    \/ \E k \in DOMAIN calls : CleanRun(k)
    \/ \E k \in DOMAIN calls : CleanFinally(k)
    \/ \E k \in DOMAIN calls : AfterClean(k)
    \/ \E k \in DOMAIN calls : ConvertStart(k)
    \/ \E k \in DOMAIN calls : MartianCheck(k)
    \/ \E k \in DOMAIN calls : MartianCreate(k)
    \/ \E k \in DOMAIN calls : MartianNpx(k)
    \/ \E k \in DOMAIN calls : MartianNode(k)
    \/ \E k \in DOMAIN calls : MartianFinally(k)
    \/ \E k \in DOMAIN calls : BuiltInReturns(k)
    \/ \E k \in DOMAIN calls : ConvertEnd(k)

\* A call is sequential code: whenever it has a next step it takes it.  The
\* bridge runs are subprocess.run(..., timeout=30), so the steps that wait for
\* the bridge end as well (outcome "timeout" at the latest).
SpecCallsFair == InitCalls /\ [][NextCalls]_vars /\ WF_vars(Progress)

\* the call went through clean_markdown_to_notion_blocks
ThroughClean(c) == c.fix_links /\ bridge.link_handler

\* the call is inside clean_markdown_to_notion_blocks or has just left it
InClean(c) == ThroughClean(c) /\ c.ctx = "main" /\ c.pc \notin {"entry", "done"}

\* what the bridge can have printed, as it is and with its tables processed
BridgeResults ==
    CallOutputs \cup {[i \in 1..Len(out) |-> process_table_with_links(out[i])] :
                         out \in CallOutputs}

\* the bridge was started at most three times, at most once in each way, and a
\* call that has returned raised nothing and returned a bridge result or the
\* blocks of the built-in parser
CleanBounded(c) ==
    /\ InClean(c) => c.starts <= 3
    /\ InClean(c) =>
          c.starts = Cardinality({run \in {"direct", "npx", "node"} : c[run] # "none"})
    /\ (ThroughClean(c) /\ Done(c)) =>
          /\ ~c.raised
          /\ c.ret \in BridgeResults \cup {<<>>, convert_with_bs4(c.input, pygments)}
          /\ c.ret = <<>> =>
                \/ c.input = <<>>
                \/ RunOk(c.direct) /\ c.out = <<>>

\* C30: a call of clean_markdown_to_notion_blocks starts the bridge at most
\* three times (the direct node run, then npx and node in the fallback
\* converter), returns a bridge result or the built-in parser's result, and
\* every call terminates.
C30_CleanTerminates ==
    /\ [](\A k \in DOMAIN calls : CleanBounded(calls[k]))
    /\ <>(\A k \in DOMAIN calls : Done(calls[k]))

\* three bridge runs, all failed, and the built-in parser's blocks returned
C30_Witness ==
    \E k \in DOMAIN calls :
        /\ ThroughClean(calls[k]) /\ Done(calls[k]) /\ ~calls[k].debug
        /\ calls[k].starts = 3
        /\ calls[k].direct = "timeout" /\ calls[k].npx = "timeout"
        /\ calls[k].node = "timeout"
        /\ calls[k].ret = convert_with_bs4(calls[k].input, pygments)
        /\ calls[k].ret # <<>>

=============================================================================
